---- MODULE Spec2Model ----
(***************************************************************************)
(* A model of the ingestion pipeline of nussif-scraper: the idempotent     *)
(* upsert of trades (db/upsert.py), the session bootstrap and the paged    *)
(* report search (scraper/session.py, scraper/fetch.py), the retrying      *)
(* dashboard loader (app/data_access.py), the price cache and the price    *)
(* enrichment (db/prices.py), the parsing of the listing rows and the      *)
(* detail fetches (scraper/parse.py, scraper/ptr_details.py,               *)
(* scraper/pipeline.py) and run_ingest (ingest_ptr_trades.py).             *)
(*                                                                         *)
(* Every component has a specification of its own (SpecUpsert, SpecScrape, *)
(* SpecLoad, SpecPrice, SpecEnrich, SpecDetail, SpecIngest).  SpecPipeline *)
(* runs the listing and the detail fetches one after the other, SpecRace   *)
(* interleaves two runs of upsert_trades on one store, and SpecRows,       *)
(* SpecAmount and SpecType apply the row parser and the two field          *)
(* normalizers to the inputs of a bounded set.  The variables of the       *)
(* components a specification leaves out keep their initial values under   *)
(* it.                                                                     *)
(***************************************************************************)
EXTENDS Integers, Sequences, FiniteSets, Bags, TLC

VARIABLES
    \* ---- db/upsert.py: upsert_trades against the trades table
    trades_table,   \* the committed rows of table "trades": a bag of rows
    up_pc,          \* "idle" | "parsing" | "loop" | "done" | "raised"
    up_trades,      \* the trades parsed so far, then the argument `trades`
    up_i,           \* number of records the loop has iterated
    seen_keys,      \* upsert.py:28
    up_pending,     \* rows session.add()-ed, not yet flushed (autoflush=False)
    inserted,       \* upsert.py:25
    up_before,      \* the table as it was when the call started
    up_repeat,      \* the running / last call repeats the previous call's list
    up_calls,       \* number of calls started
    \* ---- scraper/session.py, scraper/fetch.py, scraper/pipeline.py:20-37
    run_pc,         \* "start" | "listing" | "listed" | "aborted"
    ses_landing,    \* what the GET of the landing page came back with
    ses_post,       \* what became of the agreement POST
    ses_pc,         \* create_efd_session: "none" | "returned" | "raised"
    page_size,      \* fetch_all_reports(page_size=...)
    src_honest,     \* the listing source honours offset and page length
    src_n,          \* number of rows of an honest source
    f_pc,           \* fetch_all_reports: "none" | "loop" | "returned" | "raised"
    f_data,         \* fetch.py:139 `data`
    records_filtered, \* fetch.py:140
    f_start,        \* fetch.py:151 `start`
    f_requests,     \* number of page requests sent
    f_last,         \* the response to the last page request
    \* ---- app/data_access.py: load_trades_df
    l_pc,           \* "trying" | "returned" | "raised"
    max_retries,    \* load_trades_df(max_retries=...)
    backoff_seconds, \* load_trades_df(backoff_seconds=...)
    attempt,        \* data_access.py:42 `attempt`
    l_outcomes,     \* what each connection attempt made came to
    l_sleeps,       \* the time.sleep() calls made, in order
    l_result,       \* "none" | "query_result" | "empty_frame"
    \* ---- db/prices.py: the price cache and the enrichment of a DataFrame
    price_cache,    \* the rows of table "price_cache" the session sees: a bag
    src_days,       \* the price source: the trading days it has per ticker
    p_calls,        \* the lookups made so far, in order
    e_pc,           \* enrich_prices_for_trades: "idle" | "tx" | "latest" | "done"
    e_trades,       \* the rows of df: their ticker and transaction_date
    e_k,            \* distinct (ticker, transaction_date) pairs looked up
    e_t,            \* tickers whose latest price was looked up
    price_at_tx,    \* prices.py:185
    latest_prices,  \* prices.py:200
    e_price_at_transaction, \* column df["price_at_transaction"]
    e_current_price, \* column df["current_price"]
    \* ---- scraper/parse.py, scraper/ptr_details.py, pipeline.py:40-58
    d_pc,           \* "start" | "details" | "returned" | "raised_in_parse"
                    \* | "raised_in_session" | "raised_in_details"
    d_rows,         \* the raw rows of the listing
    d_reports,      \* pipeline.py:33 `ptr_reports`
    d_k,            \* reports whose detail page was fetched
    d_pages,        \* the detail page each of them got
    d_results,      \* what fetch_ptr_trades came to for each of them
    all_trades,     \* pipeline.py:44
    \* ---- ingest_ptr_trades.py: run_ingest
    i_pc,           \* "idle" | "fetch" | "nothing" | "enrich" | "upsert"
                    \* | "reported" | "raised"
    i_arg,          \* the records handed to upsert_trades
    i_summary,      \* what the last line of run_ingest prints
    \* ---- the HTTP sessions of the scraper and the requests sent with them
    n_sessions,     \* sessions create_efd_session has returned so far
    ses_listing,    \* pipeline.py:23 `session` (0: none)
    ses_details,    \* pipeline.py:43 `session` (0: none)
    http_log,       \* the listing and detail requests sent, in order
    \* ---- two runs of upsert_trades against one store
    up_run,         \* the run whose locals the upsert variables hold: 1 or 2
    up_other,       \* the locals of the other run
    \* ---- scraper/parse.py, scraper/ptr_details.py: the pure functions
    call_pc,        \* "idle" | "called" | "returned" | "raised"
    call_arg,       \* the argument of the call
    call_result     \* what the call returned

upsertVars == <<trades_table, up_pc, up_trades, up_i, seen_keys, up_pending,
                inserted, up_before, up_repeat, up_calls>>

scrapeVars == <<run_pc, ses_landing, ses_post, ses_pc, page_size, src_honest,
                src_n, f_pc, f_data, records_filtered, f_start, f_requests,
                f_last>>

loadVars == <<l_pc, max_retries, backoff_seconds, attempt, l_outcomes,
              l_sleeps, l_result>>

priceVars == <<price_cache, src_days, p_calls, e_pc, e_trades, e_k, e_t,
               price_at_tx, latest_prices, e_price_at_transaction,
               e_current_price>>

detailVars == <<d_pc, d_rows, d_reports, d_k, d_pages, d_results, all_trades>>

ingestVars == <<i_pc, i_arg, i_summary>>

httpVars == <<n_sessions, ses_listing, ses_details, http_log>>

raceVars == <<up_run, up_other>>

callVars == <<call_pc, call_arg, call_result>>

vars == <<upsertVars, scrapeVars, loadVars, priceVars, detailVars, ingestVars,
          httpVars, raceVars, callVars>>

\* What an action of one component leaves alone.
\* The actions of the scraper say themselves what becomes of httpVars.
notUpsert == <<scrapeVars, loadVars, priceVars, detailVars, ingestVars,
               httpVars, raceVars, callVars>>
notScrape == <<upsertVars, loadVars, priceVars, detailVars, ingestVars,
               raceVars, callVars>>
notLoad == <<upsertVars, scrapeVars, priceVars, detailVars, ingestVars,
             httpVars, raceVars, callVars>>
notPrice == <<upsertVars, scrapeVars, loadVars, detailVars, ingestVars,
              httpVars, raceVars, callVars>>
notDetail == <<upsertVars, scrapeVars, loadVars, priceVars, ingestVars,
               raceVars, callVars>>
notCall == <<upsertVars, scrapeVars, loadVars, priceVars, detailVars,
             ingestVars, httpVars, raceVars>>

----------------------------------------------------------------------------
(***************************************************************************)
(* Values.  Every field of a trade dict is modelled as a string.           *)
(*   "None"          Python None (parse_amount_range's null, a failed      *)
(*                   transaction_date parse)                               *)
(*   "nan#k"         a Python float object holding NaN (see ToDictRecords);*)
(*                   different k are different objects                     *)
(*   "NULL"          SQL NULL in a stored row                              *)
(***************************************************************************)
PyNone == "None"
SqlNull == "NULL"

MaxBatch == 3
MaxCalls == 2

\* The float object holding NaN that to_dict boxes for record k of a list.
NaNObject(k) == "nan#" \o ToString(k)
NaNObjects == {NaNObject(k) : k \in 1..MaxBatch}

SenatorNames == {"Jane Doe"}
Tickers == {"AAA"}
TransactionDates == {"2024-01-02"}
AmountMins == {"1000001.0"}
AmountMaxs == {"5000000.0", "25000000.0", PyNone}
Comments == {"c1", "c2"}

\* The trade dicts the parser builds (ptr_details.py:71-93): amount_max is
\* a float, or None for an "Over $X" amount (parse.py:140-148).
TradeDicts ==
    [senator_name : SenatorNames, ticker : Tickers,
     transaction_date : TransactionDates, amount_min : AmountMins,
     amount_max : AmountMaxs, comment : Comments]

----------------------------------------------------------------------------
(***************************************************************************)
(* db/upsert.py                                                            *)
(***************************************************************************)

\* upsert.py:32-38: the in-memory key tuple.  Python compares tuple items by
\* identity first and then by ==, so two keys agree on a NaN item only when
\* it is the same float object; model equality of the encoded values is
\* exactly that.
Key(t) ==
    <<t.senator_name, t.ticker, t.transaction_date, t.amount_min, t.amount_max>>

\* What the DBAPI binds for a Python value: None is NULL, and SQLite binds a
\* NaN double as NULL.
ToSql(v) == IF v = PyNone \/ v \in NaNObjects THEN SqlNull ELSE v

\* upsert.py:70-73, flushed at commit: the stored row of a trade dict.
TradeFromDict(t) ==
    [senator_name |-> ToSql(t.senator_name), ticker |-> ToSql(t.ticker),
     transaction_date |-> ToSql(t.transaction_date),
     amount_min |-> ToSql(t.amount_min), amount_max |-> ToSql(t.amount_max),
     comment |-> ToSql(t.comment)]

\* One conjunct of the WHERE clause of upsert.py:60-66.  SQLAlchemy renders
\* `column == None` as `column IS NULL`; any other value is bound as a
\* parameter of `column = ?`, which is never true against a NULL operand
\* (a NaN parameter is bound as NULL).
SqlMatches(col, v) ==
    IF v = PyNone THEN col = SqlNull
    ELSE IF v \in NaNObjects THEN FALSE
    ELSE col = v

\* upsert.py:57-67.  The query runs in the session's transaction and sees
\* the committed rows only: nothing was flushed (config.py:19).
TradeExists(table, t) ==
    \E row \in BagToSet(table) :
        /\ SqlMatches(row.senator_name, t.senator_name)
        /\ SqlMatches(row.ticker, t.ticker)
        /\ SqlMatches(row.transaction_date, t.transaction_date)
        /\ SqlMatches(row.amount_min, t.amount_min)
        /\ SqlMatches(row.amount_max, t.amount_max)

\* The identity columns of a stored row (models.py:64-73).
RowIdentity(row) ==
    <<row.senator_name, row.ticker, row.transaction_date, row.amount_min,
      row.amount_max>>

\* uq_trade_identity (models.py:64-73) as SQLite enforces it: two rows
\* conflict when their identity columns are equal and none of them is NULL.
HasNull(identity) == \E k \in 1..Len(identity) : identity[k] = SqlNull

UniqueViolated(table) ==
    \E row \in BagToSet(table) :
        /\ ~HasNull(RowIdentity(row))
        /\ \/ CopiesIn(row, table) > 1
           \/ \E other \in BagToSet(table) :
                  other # row /\ RowIdentity(other) = RowIdentity(row)

RECURSIVE ListsOf(_, _)
\* The lists of 1..n elements of S.
ListsOf(S, n) ==
    IF n = 0 THEN {}
    ELSE {<<x>> : x \in S}
         \cup {Append(l, x) : l \in ListsOf(S, n - 1), x \in S}

RECURSIVE SeqToBag(_)
SeqToBag(s) ==
    IF s = <<>> THEN EmptyBag ELSE SetToBag({Head(s)}) (+) SeqToBag(Tail(s))

\* pd.DataFrame(trades) followed by df.to_dict(orient="records")
\* (pipeline.py:58, ingest_ptr_trades.py:61).  A column that holds a float
\* is a float64 column, in which every None is NaN; to_dict boxes each
\* value as a Python float of its own.  A column without any float keeps
\* its None.  (transaction_date and comment are object columns.)
ToDictRecords(list) ==
    LET isFloatColumn == \E k \in 1..Len(list) : list[k].amount_max # PyNone
    IN  [k \in 1..Len(list) |->
            IF isFloatColumn /\ list[k].amount_max = PyNone
            THEN [list[k] EXCEPT !.amount_max = NaNObject(k)]
            ELSE list[k]]

\* The pipeline parses one more trade (pipeline.py:47-48).
ParseTrade(t) ==
    /\ up_pc \in {"idle", "done", "raised", "parsing"}
    /\ up_calls < MaxCalls
    /\ IF up_pc = "parsing"
       THEN /\ Len(up_trades) < MaxBatch
            /\ up_trades' = Append(up_trades, t)
       ELSE up_trades' = <<t>>
    /\ up_pc' = "parsing"
    /\ UNCHANGED <<trades_table, up_i, seen_keys, up_pending, inserted,
                   up_before, up_repeat, up_calls>>
    /\ UNCHANGED notUpsert

\* upsert.py:14-30: a call starts with an empty seen set and a new session.
\* run_ingest passes the records of the DataFrame
\* (ingest_ptr_trades.py:61-62); a caller may as well pass the parsed dicts
\* as they are.
UpsertCall(viaDataFrame) ==
    /\ up_pc = "parsing"
    /\ up_pc' = "loop"
    /\ up_trades' = IF viaDataFrame THEN ToDictRecords(up_trades) ELSE up_trades
    /\ up_i' = 0
    /\ seen_keys' = {}
    /\ up_pending' = <<>>
    /\ inserted' = 0
    /\ up_before' = trades_table
    /\ up_repeat' = FALSE
    /\ up_calls' = up_calls + 1
    /\ UNCHANGED trades_table
    /\ UNCHANGED notUpsert

\* The caller invokes upsert_trades again with the very same list.
UpsertCallAgain ==
    /\ up_pc = "done"
    /\ up_calls < MaxCalls
    /\ up_pc' = "loop"
    /\ up_i' = 0
    /\ seen_keys' = {}
    /\ up_pending' = <<>>
    /\ inserted' = 0
    /\ up_before' = trades_table
    /\ up_repeat' = TRUE
    /\ up_calls' = up_calls + 1
    /\ UNCHANGED <<trades_table, up_trades>>
    /\ UNCHANGED notUpsert

\* upsert.py:31-50: one iteration of the loop.
UpsertIterate ==
    /\ up_pc = "loop"
    /\ up_i < Len(up_trades)
    /\ LET t == up_trades[up_i + 1]
       IN  IF Key(t) \in seen_keys
           THEN UNCHANGED <<seen_keys, up_pending, inserted>>
           ELSE /\ seen_keys' = seen_keys \cup {Key(t)}
                /\ IF TradeExists(trades_table, t)
                   THEN UNCHANGED <<up_pending, inserted>>
                   ELSE /\ up_pending' = Append(up_pending, TradeFromDict(t))
                        /\ inserted' = inserted + 1
    /\ up_i' = up_i + 1
    /\ UNCHANGED <<trades_table, up_pc, up_trades, up_before, up_repeat, up_calls>>
    /\ UNCHANGED notUpsert

KeptUpToError(table, pending) == table (+) SeqToBag(pending)

\* upsert.py:30, config.py:19: an error leaves the `with` block, which
\* closes the session; nothing was committed (autocommit=False) and the
\* transaction, if the flush of the commit began one, is rolled back.
\* What the store holds then, given the rows added to the session.
RolledBack(table, pending) == table

\* upsert.py:52-54: the flush and commit of the pending rows, then the
\* return.  A violated uq_trade_identity makes the commit raise and the
\* transaction roll back.
UpsertCommit ==
    /\ up_pc = "loop"
    /\ up_i = Len(up_trades)
    /\ LET after == trades_table (+) SeqToBag(up_pending)
       IN  IF UniqueViolated(after)
           THEN /\ up_pc' = "raised"
                /\ trades_table' = RolledBack(trades_table, up_pending)
           ELSE /\ up_pc' = "done"
                /\ trades_table' = after
    /\ UNCHANGED <<up_trades, up_i, seen_keys, up_pending, inserted, up_before,
                   up_repeat, up_calls>>
    /\ UNCHANGED notUpsert

\* The locals of a run of upsert_trades (upsert.py:25-30).
Locals(pc, trades, i, seen, pending, count) ==
    [pc |-> pc, trades |-> trades, i |-> i, seen_keys |-> seen,
     pending |-> pending, inserted |-> count]

NoOtherRun == Locals("none", <<>>, 0, {}, <<>>, 0)

UpsertInit ==
    /\ trades_table = EmptyBag
    /\ up_pc = "idle"
    /\ up_trades = <<>>
    /\ up_i = 0
    /\ seen_keys = {}
    /\ up_pending = <<>>
    /\ inserted = 0
    /\ up_before = EmptyBag
    /\ up_repeat = FALSE
    /\ up_calls = 0
    /\ up_run = 1
    /\ up_other = NoOtherRun

UpsertNext ==
    \/ \E t \in TradeDicts : ParseTrade(t)
    \/ \E viaDataFrame \in BOOLEAN : UpsertCall(viaDataFrame)
    \/ UpsertCallAgain
    \/ UpsertIterate
    \/ UpsertCommit

\* Two runs of run_ingest against one store, each in a process and a
\* session of its own.  The upsert variables hold the locals of the run
\* that takes the next step, up_other those of the run that waits; the
\* committed table is the one thing they share.
MaxRaceBatch == 2

\* The trades of a run carry its comment, which tells the rows of the two
\* runs apart.
RunComment(run) == IF run = 1 THEN "c1" ELSE "c2"

RaceBatches(run) ==
    {ToDictRecords(list) :
        list \in ListsOf({t \in TradeDicts : t.comment = RunComment(run)},
                         MaxRaceBatch)}

\* The scheduler lets the other run take the next steps.
UpsertSwitch ==
    /\ up_other.pc = "loop"
    /\ up_run' = 3 - up_run
    /\ up_other' = Locals(up_pc, up_trades, up_i, seen_keys, up_pending,
                          inserted)
    /\ up_pc' = up_other.pc
    /\ up_trades' = up_other.trades
    /\ up_i' = up_other.i
    /\ seen_keys' = up_other.seen_keys
    /\ up_pending' = up_other.pending
    /\ inserted' = up_other.inserted
    /\ UNCHANGED <<trades_table, up_before, up_repeat, up_calls>>
    /\ UNCHANGED <<scrapeVars, loadVars, priceVars, detailVars, ingestVars,
                   httpVars, callVars>>

\* upsert.py:30-52: a statement of the loop or the commit fails for a
\* reason of the store's (the database is locked or unreachable); the
\* error propagates out of the `with` block and out of upsert_trades.
UpsertFails ==
    /\ up_pc = "loop"
    /\ up_pc' = "raised"
    /\ trades_table' = RolledBack(trades_table, up_pending)
    /\ UNCHANGED <<up_trades, up_i, seen_keys, up_pending, inserted, up_before,
                   up_repeat, up_calls>>
    /\ UNCHANGED notUpsert

\* Both runs have called upsert_trades (upsert.py:25-30) on an empty
\* table.
RaceInit ==
    /\ trades_table = EmptyBag
    /\ up_run = 1
    /\ up_pc = "loop"
    /\ up_trades \in RaceBatches(1)
    /\ up_i = 0
    /\ seen_keys = {}
    /\ up_pending = <<>>
    /\ inserted = 0
    /\ up_before = EmptyBag
    /\ up_repeat = FALSE
    /\ up_calls = 2
    /\ \E batch \in RaceBatches(2) :
           up_other = Locals("loop", batch, 0, {}, <<>>, 0)

RaceNext ==
    \/ UpsertIterate
    \/ UpsertCommit
    \/ UpsertSwitch
    \/ UpsertFails

----------------------------------------------------------------------------
(***************************************************************************)
(* scraper/session.py, scraper/fetch.py and their caller                   *)
(* fetch_ptr_reports_for_range (scraper/pipeline.py:20-37)                 *)
(***************************************************************************)

MaxPageSize == 3
MaxSourceRows == 5
MaxPageRows == 3
MaxFiltered == 5

\* What session.get(home_url) comes back with (session.py:35-39): a page
\* with the csrfmiddlewaretoken input, a page without it, a page whose
\* input has no value attribute, or no response at all (requests raises).
Landings == {"token", "no_token", "token_without_value", "connection_error"}

\* What becomes of session.post(home_url, data=payload) (session.py:49).
Posts == {"accepted", "rejected", "connection_error"}

\* session.py:24-51.  The status of neither response is looked at; the
\* POST is sent only when the token input was found, and its result is
\* dropped.  csrf_token['value'] raises KeyError without the attribute.
SessionRaises(landing, post) ==
    \/ landing = "connection_error"
    \/ landing = "token_without_value"
    \/ landing = "token" /\ post = "connection_error"

\* No session object (Python None).
NoSession == 0

\* pipeline.py:23: the session create_efd_session returns is kept for the
\* listing.
CreateEfdSession(landing, post) ==
    /\ run_pc = "start"
    /\ ses_landing' = landing
    /\ ses_post' = IF landing = "token" THEN post ELSE "not_sent"
    /\ IF SessionRaises(landing, post)
       THEN /\ ses_pc' = "raised"
            /\ run_pc' = "aborted"
            /\ UNCHANGED <<n_sessions, ses_listing>>
       ELSE /\ ses_pc' = "returned"
            /\ run_pc' = "listing"
            /\ n_sessions' = n_sessions + 1
            /\ ses_listing' = n_sessions + 1
    /\ UNCHANGED <<ses_details, http_log>>
    /\ UNCHANGED <<page_size, src_honest, src_n, f_pc, f_data,
                   records_filtered, f_start, f_requests, f_last>>
    /\ UNCHANGED notScrape

\* The rows at positions first..last of the source's listing, each row
\* standing for its position.
RowsFrom(first, last) == [k \in 1..(last - first + 1) |-> first + k - 1]

Min(a, b) == IF a <= b THEN a ELSE b

\* The answer of a source that honours offset and page length over its
\* src_n rows and reports recordsFiltered = src_n.
HonestResponse(start, length) ==
    [kind |-> "response", status |-> 200, body |-> "json",
     rows |-> RowsFrom(start + 1, Min(start + length, src_n)),
     has_filtered |-> TRUE, filtered |-> src_n]

\* The answers of any other source to a request at offset `start`: no
\* answer, an error status, a 200 that is not JSON (the landing page), or
\* JSON with any number of rows and any recordsFiltered, or none.
NoBody(kind, status, body) ==
    [kind |-> kind, status |-> status, body |-> body, rows |-> <<>>,
     has_filtered |-> FALSE, filtered |-> 0]

AnyResponses(start) ==
    {NoBody("connection_error", 0, "none"), NoBody("response", 403, "html"),
     NoBody("response", 403, "json"), NoBody("response", 500, "html"),
     NoBody("response", 200, "html")}
    \cup {[kind |-> "response", status |-> 200, body |-> "json",
           rows |-> RowsFrom(start + 1, start + n),
           has_filtered |-> TRUE, filtered |-> f] :
              n \in 0..MaxPageRows, f \in 0..MaxFiltered}
    \cup {[kind |-> "response", status |-> 200, body |-> "json",
           rows |-> RowsFrom(start + 1, start + n),
           has_filtered |-> FALSE, filtered |-> 0] : n \in 0..MaxPageRows}

Responses(start, length) ==
    IF src_honest THEN {HonestResponse(start, length)} ELSE AnyResponses(start)

\* What f_last keeps of a response.
Seen(resp) ==
    [kind |-> resp.kind, status |-> resp.status, body |-> resp.body,
     nrows |-> Len(resp.rows)]

RaiseForStatusServerErrors(status) == status >= 500 /\ status < 600

\* fetch.py:105: Response.raise_for_status raises for 4xx and 5xx.
RaiseForStatus(status) == status >= 400 /\ status < 600

\* fetch.py:99-106: fetch_reports_page raises when the POST gets no
\* response, when the status is an error, or when the body is not JSON.
PageRaises(resp) ==
    \/ resp.kind = "connection_error"
    \/ RaiseForStatus(resp.status)
    \/ resp.body # "json"

\* fetch.py:140: int(first_page.get("recordsFiltered", len(data))).
RecordsFiltered(resp) ==
    IF resp.has_filtered THEN resp.filtered ELSE Len(resp.rows)

GotThemAllStrict(data, filtered) == Len(data) > filtered

\* fetch.py:143 and the loop condition of fetch.py:152, negated.
GotThemAll(data, filtered) == Len(data) >= filtered

NextStartByOneRow(start, length) == start + 1

\* fetch.py:166.
NextStart(start, length) == start + length

SessionAlwaysFresh(session, fresh) == fresh

\* fetch.py:78-79, ptr_details.py:29-30: the session a request is sent
\* with is the one handed in, and a new one only when none was.
SessionUsed(session, fresh) == IF session = NoSession THEN fresh ELSE session

\* One request of the given kind (a listing page at an offset, or the
\* detail page of a listing row) is sent with the session handed in.
Send(request, target, session) ==
    LET used == SessionUsed(session, n_sessions + 1)
    IN  /\ http_log' = Append(http_log, [request |-> request,
                                          target |-> target,
                                          session |-> used])
        /\ n_sessions' = IF used = n_sessions + 1
                         THEN n_sessions + 1 ELSE n_sessions

\* fetch.py:125-151: the first page, and the return when everything fit.
\* An error raised by fetch_reports_page propagates through
\* fetch_all_reports and fetch_ptr_reports_for_range (pipeline.py:23-28),
\* neither of which catches anything.
FetchFirstPage(resp) ==
    /\ run_pc = "listing"
    /\ f_pc = "none"
    /\ Send("listing", 0, ses_listing)
    /\ UNCHANGED <<ses_listing, ses_details>>
    /\ f_requests' = f_requests + 1
    /\ f_last' = Seen(resp)
    /\ IF PageRaises(resp)
       THEN /\ f_pc' = "raised"
            /\ run_pc' = "aborted"
            /\ UNCHANGED <<f_data, records_filtered, f_start>>
       ELSE /\ f_data' = resp.rows
            /\ records_filtered' = RecordsFiltered(resp)
            /\ IF GotThemAll(resp.rows, RecordsFiltered(resp))
               THEN /\ f_pc' = "returned"
                    /\ run_pc' = "listed"
                    /\ UNCHANGED f_start
               ELSE /\ f_pc' = "loop"
                    /\ f_start' = page_size
                    /\ UNCHANGED run_pc
    /\ UNCHANGED <<ses_landing, ses_post, ses_pc, page_size, src_honest, src_n>>
    /\ UNCHANGED notScrape

\* fetch.py:152-172: one iteration of the paging loop, with the test of
\* the loop condition that follows it and the return.
FetchNextPage(resp) ==
    /\ run_pc = "listing"
    /\ f_pc = "loop"
    /\ Send("listing", f_start, ses_listing)
    /\ UNCHANGED <<ses_listing, ses_details>>
    /\ f_requests' = f_requests + 1
    /\ f_last' = Seen(resp)
    /\ IF PageRaises(resp)
       THEN /\ f_pc' = "raised"
            /\ run_pc' = "aborted"
            /\ UNCHANGED <<f_data, f_start>>
       ELSE IF resp.rows = <<>>
       THEN /\ f_pc' = "returned"
            /\ run_pc' = "listed"
            /\ UNCHANGED <<f_data, f_start>>
       ELSE /\ f_data' = f_data \o resp.rows
            /\ f_start' = NextStart(f_start, page_size)
            /\ IF GotThemAll(f_data \o resp.rows, records_filtered)
               THEN /\ f_pc' = "returned"
                    /\ run_pc' = "listed"
               ELSE UNCHANGED <<f_pc, run_pc>>
    /\ UNCHANGED <<ses_landing, ses_post, ses_pc, page_size, src_honest, src_n,
                   records_filtered>>
    /\ UNCHANGED notScrape

NoResponse == Seen(NoBody("none", 0, "none"))

\* Nothing of the scraper has run.
ScrapeStart ==
    /\ run_pc = "start"
    /\ ses_landing = "none"
    /\ ses_post = "none"
    /\ ses_pc = "none"
    /\ f_pc = "none"
    /\ f_data = <<>>
    /\ records_filtered = 0
    /\ f_start = 0
    /\ f_requests = 0
    /\ f_last = NoResponse
    /\ n_sessions = 0
    /\ ses_listing = NoSession
    /\ ses_details = NoSession
    /\ http_log = <<>>

\* fetch.py:113: the default page size.
DefaultPageSize == 100

ScrapeIdle ==
    /\ ScrapeStart
    /\ page_size = DefaultPageSize
    /\ src_honest = TRUE
    /\ src_n = 0

ScrapeInit ==
    /\ ScrapeStart
    /\ page_size \in 1..MaxPageSize
    /\ src_honest \in BOOLEAN
    /\ src_n \in 0..MaxSourceRows

ScrapeNext ==
    \/ \E landing \in Landings, post \in Posts : CreateEfdSession(landing, post)
    \/ \E resp \in Responses(0, page_size) : FetchFirstPage(resp)
    \/ \E resp \in Responses(f_start, page_size) : FetchNextPage(resp)

----------------------------------------------------------------------------
(***************************************************************************)
(* app/data_access.py: load_trades_df                                      *)
(***************************************************************************)

MaxRetriesTried == 5
MaxBackoff == 2

\* data_access.py:15-16: the default retry ceiling and backoff step.
DefaultMaxRetries == 5
DefaultBackoffSeconds == 2

\* What engine.connect() and pd.read_sql come to on one attempt
\* (data_access.py:44-45): the query result, or an exception of some class
\* with some message.
Failures ==
    [class : {"OperationalError", "ProgrammingError"},
     msg : {"HYT00", "Login timeout expired", "database is locked"}]
Success == [class |-> "none", msg |-> "none"]
Outcomes == {Success} \cup Failures

\* data_access.py:47: `except OperationalError`.
IsCaught(outcome) == outcome.class = "OperationalError"

\* data_access.py:51-52.
IsTimeout(outcome) == outcome.msg \in {"HYT00", "Login timeout expired"}

ReraisedOneEarly(outcome, n) == ~IsTimeout(outcome) \/ n >= max_retries - 1

\* data_access.py:54: the caught error is raised again.
Reraised(outcome, n) == ~IsTimeout(outcome) \/ n = max_retries

SleepForConstant(backoff, n) == backoff

\* data_access.py:57.
SleepFor(backoff, n) == backoff * n

\* data_access.py:42-62: one pass through the body of the retry loop.
LoadAttempt(outcome) ==
    /\ l_pc = "trying"
    /\ attempt <= max_retries
    /\ l_outcomes' = Append(l_outcomes, outcome)
    /\ IF outcome = Success
       THEN /\ l_pc' = "returned"
            /\ l_result' = "query_result"
            /\ UNCHANGED <<attempt, l_sleeps>>
       ELSE IF ~IsCaught(outcome) \/ Reraised(outcome, attempt)
       THEN /\ l_pc' = "raised"
            /\ UNCHANGED <<attempt, l_sleeps, l_result>>
       ELSE /\ l_sleeps' = Append(l_sleeps, SleepFor(backoff_seconds, attempt))
            /\ attempt' = attempt + 1
            /\ UNCHANGED <<l_pc, l_result>>
    /\ UNCHANGED <<max_retries, backoff_seconds>>
    /\ UNCHANGED notLoad

\* data_access.py:64-66: the loop ended without a return or a raise, which
\* it does when max_retries < 1.
LoadFallThrough ==
    /\ l_pc = "trying"
    /\ attempt > max_retries
    /\ l_pc' = "returned"
    /\ l_result' = "empty_frame"
    /\ UNCHANGED <<max_retries, backoff_seconds, attempt, l_outcomes, l_sleeps>>
    /\ UNCHANGED notLoad

\* load_trades_df was called: the loop is about to start.
LoadStart ==
    /\ l_pc = "trying"
    /\ attempt = 1
    /\ l_outcomes = <<>>
    /\ l_sleeps = <<>>
    /\ l_result = "none"

LoadIdle ==
    /\ LoadStart
    /\ max_retries = DefaultMaxRetries
    /\ backoff_seconds = DefaultBackoffSeconds

LoadInit ==
    /\ LoadStart
    /\ max_retries \in 0..MaxRetriesTried
    /\ backoff_seconds \in 1..MaxBackoff

LoadNext ==
    \/ \E outcome \in Outcomes : LoadAttempt(outcome)
    \/ LoadFallThrough

----------------------------------------------------------------------------
(***************************************************************************)
(* db/prices.py: get_price_on_or_before, get_latest_price                  *)
(*                                                                         *)
(* A date is the number of its day.  A closing price is modelled by the    *)
(* string naming the ticker and the trading day it is the close of, so     *)
(* that the closes of different days are different prices.                 *)
(***************************************************************************)

MaxLookups == 3

\* prices.py:58: the days of history fetched before the target date.
WindowDays == 30

\* prices.py:110: dt.date.today().
Today == 100

PriceTickers == {"AAA", "BBB"}

\* The transaction dates looked up.
TxDates == {60, Today}

\* The close the source has for a ticker on a trading day.
Close(ticker, day) == ticker \o "@" \o ToString(day)

\* The price sources tried: the trading days each ticker has closes for.
\* A ticker the source does not know has none.
PriceSources ==
    { [t \in PriceTickers |-> IF t = "AAA" THEN {58, 60, 95, Today} ELSE {59, 65}],
      [t \in PriceTickers |-> IF t = "AAA" THEN {59, 99} ELSE {}],
      [t \in PriceTickers |-> IF t = "AAA" THEN {20} ELSE {60, Today}] }

\* What yf.download comes to (prices.py:61-68, 113-125): the source's
\* closes, an empty frame, or an exception.
FetchOutcomes == {"ok", "empty", "error"}

\* yf.download(ticker, start=start, end=end): the trading days of the
\* answer; `end` is exclusive.
Download(ticker, start, end, outcome) ==
    IF outcome = "ok"
    THEN {d \in src_days[ticker] : start <= d /\ d < end}
    ELSE {}

CachedOnDate(cache, ticker, target_date) ==
    {row \in BagToSet(cache) : row.ticker = ticker /\ row.date = target_date}

\* The rows prices.py:44-52 selects from: ticker = :ticker, date <= :target.
CachedOnOrBefore(cache, ticker, target_date) ==
    {row \in BagToSet(cache) : row.ticker = ticker /\ row.date <= target_date}

\* prices.py:50-55: ORDER BY date DESC LIMIT 1, and the price of that row,
\* or None.  Which of two rows of one date the database returns first is
\* up to the database.
CachedPrice(cache, ticker, target_date) ==
    LET rows == CachedOnOrBefore(cache, ticker, target_date)
    IN  IF rows = {} THEN PyNone
        ELSE (CHOOSE row \in rows : \A other \in rows : other.date <= row.date).price

\* prices.py:80-86, 140-146: is there a row for (ticker, day)?
ExistingNever(cache, ticker, day) == FALSE

Existing(cache, ticker, day) ==
    \E row \in BagToSet(cache) : row.ticker = ticker /\ row.date = day

\* uq_price_cache_ticker_date (models.py:108-110), checked at flush.
PriceUniqueViolated(cache) ==
    \E row \in BagToSet(cache) :
        \/ CopiesIn(row, cache) > 1
        \/ \E other \in BagToSet(cache) :
               other # row /\ other.ticker = row.ticker /\ other.date = row.date

\* prices.py:87-94, 147-154.
PriceCacheRow(ticker, day, updated) ==
    [ticker |-> ticker, date |-> day, price |-> Close(ticker, day),
     last_updated |-> updated]

FirstDate(hist) == CHOOSE x \in hist : \A y \in hist : x <= y

\* prices.py:127-128: hist.index[-1].date(), the index being ascending.
LastDate(hist) == CHOOSE x \in hist : \A y \in hist : y <= x

OnDownloadExceptionRaise == "Exception"

\* prices.py:63-65, 120-122: `except Exception` prints and returns None.
OnDownloadException == PyNone

\* What a lookup comes to: the value returned (or the error raised), the
\* cache after it, and the external fetch it made, if any.
Lookup(fn, ticker, date, result, cache, fetch, start, end, closes) ==
    [call |-> [fn |-> fn, ticker |-> ticker, date |-> date, result |-> result,
               fetch |-> fetch, start |-> start, end |-> end,
               closes |-> closes,
               cold |-> \A row \in BagToSet(price_cache) : row.ticker # ticker],
     cache |-> cache]

PlaceholderOnMiss(cache, ticker, day) ==
    cache
    (+) SetToBag({[PriceCacheRow(ticker, day, day) EXCEPT !.price = PyNone]})

\* prices.py:65, 68, 122, 125: the lookup returns None before anything
\* was added to the session.  The cache the session sees after it.
OnMiss(cache, ticker, day) == cache

\* prices.py:26-100.
PriceOnOrBefore(cache, ticker, target_date, outcome) ==
    LET cached == CachedPrice(cache, ticker, target_date)
        start == target_date - WindowDays
        end == target_date + 1
        hist == Download(ticker, start, end, outcome)
        added == {PriceCacheRow(ticker, day, target_date) :
                     day \in {d \in hist : ~Existing(cache, ticker, d)}}
        flushed == cache (+) SetToBag(added)
        fetched(result, after) ==
            Lookup("get_price_on_or_before", ticker, target_date, result,
                   after, outcome, start, end, Cardinality(hist))
    IN  IF cached # PyNone
        THEN Lookup("get_price_on_or_before", ticker, target_date, cached,
                    cache, "none", 0, 0, 0)
        ELSE IF outcome = "error"
        THEN fetched(OnDownloadException, OnMiss(cache, ticker, target_date))
        ELSE IF hist = {}
        THEN fetched(PyNone, OnMiss(cache, ticker, target_date))
        ELSE IF PriceUniqueViolated(flushed)
        THEN fetched("IntegrityError", cache)
        ELSE fetched(CachedPrice(flushed, ticker, target_date), flushed)

\* prices.py:103-160.
LatestPrice(cache, ticker, outcome) ==
    LET start == Today - WindowDays
        end == Today + 1
        hist == Download(ticker, start, end, outcome)
        last_date == LastDate(hist)
        row == PriceCacheRow(ticker, last_date, Today)
        others == {r \in BagToSet(cache) :
                      ~(r.ticker = ticker /\ r.date = last_date)}
        updated == [r \in others |-> CopiesIn(r, cache)] (+) SetToBag({row})
        flushed == cache (+) SetToBag({row})
        fetched(result, after) ==
            Lookup("get_latest_price", ticker, Today, result, after, outcome,
                   start, end, Cardinality(hist))
    IN  IF outcome = "error"
        THEN fetched(OnDownloadException, OnMiss(cache, ticker, Today))
        ELSE IF hist = {}
        THEN fetched(PyNone, OnMiss(cache, ticker, Today))
        ELSE IF Existing(cache, ticker, last_date)
        THEN fetched(row.price, updated)
        ELSE IF PriceUniqueViolated(flushed)
        THEN fetched("IntegrityError", cache)
        ELSE fetched(row.price, flushed)

\* A caller looks a price up (outside of an enrichment run).
GetPriceOnOrBefore(ticker, target_date, outcome) ==
    /\ e_pc = "idle"
    /\ Len(p_calls) < MaxLookups
    /\ LET r == PriceOnOrBefore(price_cache, ticker, target_date, outcome)
       IN  /\ price_cache' = r.cache
           /\ p_calls' = Append(p_calls, r.call)
    /\ UNCHANGED <<src_days, e_pc, e_trades, e_k, e_t, price_at_tx,
                   latest_prices, e_price_at_transaction, e_current_price>>
    /\ UNCHANGED notPrice

GetLatestPrice(ticker, outcome) ==
    /\ e_pc = "idle"
    /\ Len(p_calls) < MaxLookups
    /\ LET r == LatestPrice(price_cache, ticker, outcome)
       IN  /\ price_cache' = r.cache
           /\ p_calls' = Append(p_calls, r.call)
    /\ UNCHANGED <<src_days, e_pc, e_trades, e_k, e_t, price_at_tx,
                   latest_prices, e_price_at_transaction, e_current_price>>
    /\ UNCHANGED notPrice

\* A Python dict without entries.
EmptyDict == [key \in {} |-> PyNone]

\* An empty cache, and no enrichment under way.
PriceStart ==
    /\ price_cache = EmptyBag
    /\ p_calls = <<>>
    /\ e_pc = "idle"
    /\ e_trades = <<>>
    /\ e_k = 0
    /\ e_t = 0
    /\ price_at_tx = EmptyDict
    /\ latest_prices = EmptyDict
    /\ e_price_at_transaction = <<>>
    /\ e_current_price = <<>>

PriceIdle ==
    /\ PriceStart
    /\ src_days = [t \in PriceTickers |-> {}]

PriceInit ==
    /\ PriceStart
    /\ src_days \in PriceSources

PriceNext ==
    \/ \E ticker \in PriceTickers, target_date \in TxDates,
          outcome \in FetchOutcomes :
              GetPriceOnOrBefore(ticker, target_date, outcome)
    \/ \E ticker \in PriceTickers, outcome \in FetchOutcomes :
              GetLatestPrice(ticker, outcome)

----------------------------------------------------------------------------
(***************************************************************************)
(* db/prices.py: enrich_prices_for_trades, as run_ingest calls it          *)
(* (ingest_ptr_trades.py:59-62)                                            *)
(***************************************************************************)

MaxTrades == 3

\* The rows of the DataFrame: what enrichment reads of a trade.
EnrichTrades == [ticker : PriceTickers, transaction_date : TxDates]

\* An exception that leaves a lookup, as opposed to a value it returns.
Raised(result) == result \in {"IntegrityError", "Exception"}

KeepDuplicates(s) == s

\* DataFrame.drop_duplicates (prices.py:179-183): the first occurrence of
\* every row, in order.
RECURSIVE DropDuplicates(_)
DropDuplicates(s) ==
    IF s = <<>> THEN <<>>
    ELSE LET front == DropDuplicates(SubSeq(s, 1, Len(s) - 1))
             last == s[Len(s)]
         IN  IF \E k \in 1..Len(front) : front[k] = last
             THEN front
             ELSE Append(front, last)

\* prices.py:178-183: the distinct (ticker, transaction_date) pairs.
DistinctPairs(trades) ==
    DropDuplicates([k \in 1..Len(trades) |->
                        <<trades[k].ticker, trades[k].transaction_date>>])

\* The order sorted() puts the tickers in.
TickerOrder == <<"AAA", "BBB">>

\* prices.py:199: sorted({t for t in df["ticker"].dropna().unique() if t}).
SortedTickers(trades) ==
    SelectSeq(TickerOrder,
              LAMBDA t : \E k \in 1..Len(trades) : trades[k].ticker = t)

\* dict.get(key): the value, or None.
DictGet(dict, key) == IF key \in DOMAIN dict THEN dict[key] ELSE PyNone

\* dict[key] = value.
DictSet(dict, key, value) ==
    [k \in DOMAIN dict \cup {key} |-> IF k = key THEN value ELSE dict[k]]

\* prices.py:193-196.
PriceAtTransactionColumn(trades, dict) ==
    [k \in 1..Len(trades) |->
        DictGet(dict, <<trades[k].ticker, trades[k].transaction_date>>)]

\* prices.py:206-209.
CurrentPriceColumn(trades, dict) ==
    [k \in 1..Len(trades) |-> DictGet(dict, trades[k].ticker)]

\* prices.py:186-196: the lookup of the next distinct pair; after the last
\* one the column is assigned and the tickers' latest prices are next.
EnrichPriceAtTransaction(outcome) ==
    /\ e_pc = "tx"
    /\ e_k < Len(DistinctPairs(e_trades))
    /\ LET pair == DistinctPairs(e_trades)[e_k + 1]
           r == PriceOnOrBefore(price_cache, pair[1], pair[2], outcome)
           dict == IF r.call.result # PyNone
                   THEN DictSet(price_at_tx, pair, r.call.result)
                   ELSE price_at_tx
       IN  /\ p_calls' = Append(p_calls, r.call)
           /\ IF Raised(r.call.result)
              THEN /\ e_pc' = "raised"
                   /\ i_pc' = "raised"
                   /\ UNCHANGED <<price_cache, e_k, price_at_tx,
                                  e_price_at_transaction>>
              ELSE /\ price_cache' = r.cache
                   /\ e_k' = e_k + 1
                   /\ price_at_tx' = dict
                   /\ UNCHANGED i_pc
                   /\ IF e_k + 1 = Len(DistinctPairs(e_trades))
                      THEN /\ e_price_at_transaction' =
                                  PriceAtTransactionColumn(e_trades, dict)
                           /\ e_pc' = "latest"
                      ELSE UNCHANGED <<e_price_at_transaction, e_pc>>
    /\ UNCHANGED <<src_days, e_trades, e_t, latest_prices, e_current_price>>
    /\ UNCHANGED <<i_arg, i_summary>>
    /\ UNCHANGED <<upsertVars, scrapeVars, loadVars, detailVars, httpVars,
                   raceVars, callVars>>

\* prices.py:199-213: the lookup of the next ticker's latest price; after
\* the last one the column is assigned and the session committed.
EnrichCurrentPrice(outcome) ==
    /\ e_pc = "latest"
    /\ e_t < Len(SortedTickers(e_trades))
    /\ LET ticker == SortedTickers(e_trades)[e_t + 1]
           r == LatestPrice(price_cache, ticker, outcome)
           dict == IF r.call.result # PyNone
                   THEN DictSet(latest_prices, ticker, r.call.result)
                   ELSE latest_prices
       IN  /\ p_calls' = Append(p_calls, r.call)
           /\ IF Raised(r.call.result)
              THEN /\ e_pc' = "raised"
                   /\ i_pc' = "raised"
                   /\ UNCHANGED <<price_cache, e_t, latest_prices,
                                  e_current_price>>
              ELSE /\ price_cache' = r.cache
                   /\ e_t' = e_t + 1
                   /\ latest_prices' = dict
                   /\ UNCHANGED i_pc
                   /\ IF e_t + 1 = Len(SortedTickers(e_trades))
                      THEN /\ e_current_price' =
                                  CurrentPriceColumn(e_trades, dict)
                           /\ e_pc' = "done"
                      ELSE UNCHANGED <<e_current_price, e_pc>>
    /\ UNCHANGED <<src_days, e_trades, e_k, price_at_tx,
                   e_price_at_transaction>>
    /\ UNCHANGED <<i_arg, i_summary>>
    /\ UNCHANGED <<upsertVars, scrapeVars, loadVars, detailVars, httpVars,
                   raceVars, callVars>>

\* Nothing printed yet.
NoSummary == [inserted |-> 0, total |-> 0]

NextStepUpsertFirst(step) ==
    IF step = "fetch" THEN "upsert"
    ELSE IF step = "enrich" THEN "upsert"
    ELSE "reported"

\* ingest_ptr_trades.py:50-63: what run_ingest does after a step of its
\* returned: fetch_ptr_trades_for_range (50), enrich_prices_for_trades
\* (59), upsert_trades (62), the summary (63).
NextStep(step) ==
    IF step = "fetch" THEN "enrich"
    ELSE IF step = "enrich" THEN "upsert"
    ELSE "reported"

\* df.to_dict(orient="records") on a price column
\* (ingest_ptr_trades.py:61): a column that holds a float is a float64
\* column whose None are NaN; a column of None only keeps them.
PriceRecords(column) ==
    LET isFloatColumn == \E k \in 1..Len(column) : column[k] # PyNone
    IN  [k \in 1..Len(column) |->
            IF isFloatColumn /\ column[k] = PyNone THEN NaNObject(k)
            ELSE column[k]]

\* ingest_ptr_trades.py:59-62: enrichment returned; the records of the
\* DataFrame are what upsert_trades is called with.
IngestEnriched ==
    /\ i_pc = "enrich"
    /\ e_pc = "done"
    /\ i_pc' = NextStep("enrich")
    /\ i_arg' = [k \in 1..Len(e_trades) |->
                    [ticker |-> e_trades[k].ticker,
                     transaction_date |-> e_trades[k].transaction_date,
                     price_at_transaction |->
                         PriceRecords(e_price_at_transaction)[k],
                     current_price |-> PriceRecords(e_current_price)[k]]]
    /\ UNCHANGED i_summary
    /\ UNCHANGED <<upsertVars, scrapeVars, loadVars, priceVars, detailVars,
                   httpVars, raceVars, callVars>>

\* run_ingest has fetched a DataFrame that is not empty and calls
\* enrich_prices_for_trades on it (ingest_ptr_trades.py:50-59).
EnrichInit ==
    /\ price_cache = EmptyBag
    /\ src_days \in PriceSources
    /\ p_calls = <<>>
    /\ e_pc = "tx"
    /\ e_trades \in ListsOf(EnrichTrades, MaxTrades)
    /\ e_k = 0
    /\ e_t = 0
    /\ price_at_tx = EmptyDict
    /\ latest_prices = EmptyDict
    /\ e_price_at_transaction = <<>>
    /\ e_current_price = <<>>
    /\ i_pc = "enrich"
    /\ i_arg = <<>>
    /\ i_summary = NoSummary

EnrichNext ==
    \/ \E outcome \in FetchOutcomes : EnrichPriceAtTransaction(outcome)
    \/ \E outcome \in FetchOutcomes : EnrichCurrentPrice(outcome)
    \/ IngestEnriched

----------------------------------------------------------------------------
(***************************************************************************)
(* scraper/parse.py: parse_report_rows; scraper/ptr_details.py:            *)
(* fetch_ptr_trades; their callers in scraper/pipeline.py                  *)
(***************************************************************************)

MaxRows == 3
MaxPageTrades == 2

\* A raw listing row [first_name, last_name, role, html_link, filed_date]
\* (parse.py:25-33), by what parse_report_row looks at: the number of its
\* fields, the <a> of its link and the format in the link's path, the
\* link's text, and the filing date string.
WellFormedRow(title, format) ==
    [fields |-> 5, link |-> "a_href", format |-> format, title |-> title,
     filed |-> "01/13/2026"]

PtrRow == WellFormedRow("Periodic Transaction Report for 01/13/2026", "ptr")

RawRows ==
    {PtrRow,
     WellFormedRow("Periodic Transaction Report for 01/13/2026", "paper"),
     WellFormedRow("Annual Report for CY 2025", "annual"),
     [PtrRow EXCEPT !.fields = 4],
     [PtrRow EXCEPT !.link = "no_a"],
     [PtrRow EXCEPT !.link = "a_without_href"],
     [PtrRow EXCEPT !.filed = "2026-01-13"]}

\* parse.py:75: strptime(filed_str, "%m/%d/%Y") succeeds.
IsMonthDayYear(filed) == filed = "01/13/2026"

\* parse.py:36-37, 44-45, 75: parse_report_row raises ValueError.
RowRaises(row) ==
    \/ row.fields < 5
    \/ row.link # "a_href"
    \/ ~IsMonthDayYear(row.filed)

\* parse.py:64-72, lowered titles of the rows tried.
ReportType(title) ==
    IF title = "Periodic Transaction Report for 01/13/2026" THEN "PTR"
    ELSE IF title = "Annual Report for CY 2025" THEN "Annual"
    ELSE "Other"

\* parse.py:22-91, for a row that does not raise; `row` is the position of
\* the raw row in the listing.
ParseReportRow(rows, k) ==
    [row |-> k,
     report_type |-> ReportType(rows[k].title),
     report_format |-> rows[k].format,
     is_ptr |-> ReportType(rows[k].title) = "PTR",
     filing_date |-> rows[k].filed]

\* parse.py:94-97: a list comprehension; the first row that raises ends it.
ParseReportRowsRaises(rows) == \E k \in 1..Len(rows) : RowRaises(rows[k])

ParseReportRows(rows) == [k \in 1..Len(rows) |-> ParseReportRow(rows, k)]

IsPtrReportOfAnyFormat(report) == report.is_ptr

\* pipeline.py:33-36.
IsPtrReport(report) == report.is_ptr /\ report.report_format = "ptr"

PtrReports(reports) == SelectSeq(reports, IsPtrReport)

\* What session.get(report_url) comes back with (ptr_details.py:31), by
\* what fetch_ptr_trades looks at: the status, whether the text holds
\* "Agreement" or "Prohibited", the table found (one whose caption
\* mentions transactions, else one of class "table", else none), whether
\* that table has a <tbody>, and the number of its rows that are trades.
Page(status, marker, table, tbody, rows) ==
    [status |-> status, marker |-> marker, table |-> table, tbody |-> tbody,
     rows |-> rows]

DetailPages ==
    {Page(200, FALSE, "captioned", TRUE, n) : n \in 0..MaxPageTrades}
    \cup {Page(200, FALSE, "none", FALSE, 0),
          Page(200, FALSE, "class_table", FALSE, 0),
          Page(200, TRUE, "none", FALSE, 0),
          Page(200, TRUE, "class_table", FALSE, 0),
          Page(200, TRUE, "class_table", TRUE, 1),
          Page(500, FALSE, "none", FALSE, 0)}

\* ptr_details.py:176: the landing/disclaimer page marker.
HasLandingMarker(page) == page.marker

\* ptr_details.py:60-69: _find_transactions_table raises ValueError.
TableNotFound(page) == page.table = "none"

\* What fetch_ptr_trades comes to.
Returned(trades) == [raised |-> "none", trades |-> trades]
Raises(error) == [raised |-> error, trades |-> <<>>]

\* ptr_details.py:171-179 with fetch_report_html (20-41) and
\* parse_ptr_trades_from_html (72-168).  The marker is printed and nothing
\* else.  A trade is named by its report's listing row and its table row.
FetchPtrTrades(report, page) ==
    IF RaiseForStatus(page.status) THEN Raises("HTTPError")
    ELSE IF TableNotFound(page) THEN Raises("ValueError")
    ELSE IF ~page.tbody THEN Returned(<<>>)
    ELSE Returned([n \in 1..page.rows |-> <<report.row, n>>])

\* pipeline.py:30-37, 43-44: the listing rows are parsed and the PTR
\* reports kept; an error of parse_report_rows propagates.  Then
\* fetch_ptr_trades_for_reports creates a session of its own, whose
\* error propagates too.  Without reports the loop of pipeline.py:46 has
\* nothing to do.
ParseListing(landing, post) ==
    /\ d_pc = "start"
    /\ IF ParseReportRowsRaises(d_rows)
       THEN /\ d_pc' = "raised_in_parse"
            /\ UNCHANGED <<d_reports, n_sessions, ses_details>>
       ELSE /\ d_reports' = PtrReports(ParseReportRows(d_rows))
            /\ IF SessionRaises(landing, post)
               THEN /\ d_pc' = "raised_in_session"
                    /\ UNCHANGED <<n_sessions, ses_details>>
               ELSE /\ n_sessions' = n_sessions + 1
                    /\ ses_details' = n_sessions + 1
                    /\ d_pc' = IF PtrReports(ParseReportRows(d_rows)) = <<>>
                               THEN "returned" ELSE "details"
    /\ UNCHANGED <<ses_listing, http_log>>
    /\ UNCHANGED <<d_rows, d_k, d_pages, d_results, all_trades>>
    /\ UNCHANGED notDetail

\* pipeline.py:46-50: one iteration of the loop over the reports; an
\* error of fetch_ptr_trades propagates, and after the last report the
\* trades are returned.
FetchDetail(page) ==
    /\ d_pc = "details"
    /\ d_k < Len(d_reports)
    /\ Send("detail", d_reports[d_k + 1].row, ses_details)
    /\ UNCHANGED <<ses_listing, ses_details>>
    /\ LET r == FetchPtrTrades(d_reports[d_k + 1], page)
       IN  /\ d_pages' = Append(d_pages, page)
           /\ d_results' = Append(d_results, r)
           /\ d_k' = d_k + 1
           /\ IF r.raised # "none"
              THEN /\ d_pc' = "raised_in_details"
                   /\ UNCHANGED all_trades
              ELSE /\ all_trades' = all_trades \o r.trades
                   /\ d_pc' = IF d_k + 1 = Len(d_reports)
                              THEN "returned" ELSE "details"
    /\ UNCHANGED <<d_rows, d_reports>>
    /\ UNCHANGED notDetail

\* fetch_all_reports returned the rows of a listing.
DetailInit ==
    /\ d_pc = "start"
    /\ d_rows \in {<<>>} \cup ListsOf(RawRows, MaxRows)
    /\ d_reports = <<>>
    /\ d_k = 0
    /\ d_pages = <<>>
    /\ d_results = <<>>
    /\ all_trades = <<>>

DetailNext ==
    \/ \E landing \in Landings, post \in Posts : ParseListing(landing, post)
    \/ \E page \in DetailPages : FetchDetail(page)

----------------------------------------------------------------------------
(***************************************************************************)
(* ingest_ptr_trades.py: run_ingest                                        *)
(***************************************************************************)

\* The day a transaction date of the trade dicts is.
DayNumber(date) == IF date = "2024-01-02" THEN 60 ELSE Today

\* ingest_ptr_trades.py:50: fetch_ptr_trades_for_range parses one more
\* trade (pipeline.py:47-48).
IngestParseTrade(t) ==
    /\ i_pc = "fetch"
    /\ ParseTrade(t)

\* ingest_ptr_trades.py:50: an error of the fetch (session, listing,
\* listing rows, detail pages) propagates; run_ingest catches nothing.
IngestFetchRaises ==
    /\ i_pc = "fetch"
    /\ i_pc' = "raised"
    /\ UNCHANGED <<i_arg, i_summary>>
    /\ UNCHANGED <<upsertVars, scrapeVars, loadVars, priceVars, detailVars,
                   httpVars, raceVars, callVars>>

\* ingest_ptr_trades.py:50-59: the DataFrame of the trades is returned;
\* an empty one ends the run, any other is handed to
\* enrich_prices_for_trades (prices.py:173-185).
IngestFetched ==
    /\ i_pc = "fetch"
    /\ IF up_trades = <<>>
       THEN /\ i_pc' = "nothing"
            /\ UNCHANGED <<e_pc, e_trades>>
       ELSE /\ i_pc' = NextStep("fetch")
            /\ e_pc' = "tx"
            /\ e_trades' =
                   [k \in 1..Len(up_trades) |->
                       [ticker |-> up_trades[k].ticker,
                        transaction_date |->
                            DayNumber(up_trades[k].transaction_date)]]
    /\ UNCHANGED <<price_cache, src_days, p_calls, e_k, e_t, price_at_tx,
                   latest_prices, e_price_at_transaction, e_current_price>>
    /\ UNCHANGED <<i_arg, i_summary>>
    /\ UNCHANGED <<upsertVars, scrapeVars, loadVars, detailVars, httpVars,
                   raceVars, callVars>>

\* ingest_ptr_trades.py:61-62: upsert_trades is called with the records of
\* the DataFrame, and runs (upsert.py:14-54).
IngestUpsertCall ==
    /\ i_pc = "upsert"
    /\ UpsertCall(TRUE)

IngestUpsertIterate ==
    /\ i_pc = "upsert"
    /\ UpsertIterate

IngestUpsertCommit ==
    /\ i_pc = "upsert"
    /\ UpsertCommit

\* ingest_ptr_trades.py:62-63: upsert_trades returned, and the summary is
\* printed; or it raised.
IngestUpsertReturned ==
    /\ i_pc = "upsert"
    /\ up_pc \in {"done", "raised"}
    /\ IF up_pc = "done"
       THEN /\ i_pc' = NextStep("upsert")
            /\ i_summary' = [inserted |-> inserted, total |-> Len(up_trades)]
       ELSE /\ i_pc' = "raised"
            /\ UNCHANGED i_summary
    /\ UNCHANGED i_arg
    /\ UNCHANGED <<upsertVars, scrapeVars, loadVars, priceVars, detailVars,
                   httpVars, raceVars, callVars>>

\* run_ingest was called (ingest_ptr_trades.py:36-49).
IngestInit ==
    /\ PriceStart
    /\ src_days \in PriceSources
    /\ i_pc = "fetch"
    /\ i_arg = <<>>
    /\ i_summary = NoSummary

IngestNext ==
    \/ \E t \in TradeDicts : IngestParseTrade(t)
    \/ IngestFetchRaises
    \/ IngestFetched
    \/ \E outcome \in FetchOutcomes : EnrichPriceAtTransaction(outcome)
    \/ \E outcome \in FetchOutcomes : EnrichCurrentPrice(outcome)
    \/ IngestEnriched
    \/ IngestUpsertCall
    \/ IngestUpsertIterate
    \/ IngestUpsertCommit
    \/ IngestUpsertReturned

\* Nothing of the detail fetches or of run_ingest has run.
DetailIdle ==
    /\ d_pc = "start"
    /\ d_rows = <<>>
    /\ d_reports = <<>>
    /\ d_k = 0
    /\ d_pages = <<>>
    /\ d_results = <<>>
    /\ all_trades = <<>>

IngestIdle ==
    /\ i_pc = "idle"
    /\ i_arg = <<>>
    /\ i_summary = NoSummary

----------------------------------------------------------------------------
\* None of the pure functions was called.
CallIdle ==
    /\ call_pc = "idle"
    /\ call_arg = <<>>
    /\ call_result = <<>>

Idle == PriceIdle /\ DetailIdle /\ IngestIdle

Init == UpsertInit /\ ScrapeIdle /\ LoadIdle /\ CallIdle /\ Idle

SpecUpsert == Init /\ [][UpsertNext]_vars

InitScrape == UpsertInit /\ ScrapeInit /\ LoadIdle /\ CallIdle /\ Idle

SpecScrape == InitScrape /\ [][ScrapeNext]_vars

SpecScrapeFair == SpecScrape /\ WF_vars(ScrapeNext)

InitLoad == UpsertInit /\ ScrapeIdle /\ LoadInit /\ CallIdle /\ Idle

SpecLoad == InitLoad /\ [][LoadNext]_vars

InitPrice ==
    /\ UpsertInit /\ ScrapeIdle /\ LoadIdle /\ CallIdle
    /\ PriceInit /\ DetailIdle /\ IngestIdle

SpecPrice == InitPrice /\ [][PriceNext]_vars

InitEnrich ==
    /\ UpsertInit /\ ScrapeIdle /\ LoadIdle /\ CallIdle
    /\ EnrichInit /\ DetailIdle

SpecEnrich == InitEnrich /\ [][EnrichNext]_vars

InitDetail ==
    /\ UpsertInit /\ ScrapeIdle /\ LoadIdle /\ CallIdle
    /\ PriceIdle /\ DetailInit /\ IngestIdle

SpecDetail == InitDetail /\ [][DetailNext]_vars

InitIngest ==
    /\ UpsertInit /\ ScrapeIdle /\ LoadIdle /\ CallIdle
    /\ IngestInit /\ DetailIdle

SpecIngest == InitIngest /\ [][IngestNext]_vars

\* pipeline.py:53-58: fetch_ptr_trades_for_range, the listing of a source
\* that serves the rows d_rows and then the detail fetches.
PipelineParseListing(landing, post) ==
    /\ run_pc = "listed"
    /\ ParseListing(landing, post)

PipelineNext ==
    \/ \E landing \in Landings, post \in Posts : CreateEfdSession(landing, post)
    \/ \E resp \in Responses(0, page_size) : FetchFirstPage(resp)
    \/ \E resp \in Responses(f_start, page_size) : FetchNextPage(resp)
    \/ \E landing \in Landings, post \in Posts :
           PipelineParseListing(landing, post)
    \/ \E page \in DetailPages : FetchDetail(page)

InitPipeline ==
    /\ UpsertInit /\ LoadIdle /\ CallIdle /\ PriceIdle /\ IngestIdle
    /\ DetailInit
    /\ ScrapeStart
    /\ page_size \in 1..MaxPageSize
    /\ src_honest = TRUE
    /\ src_n = Len(d_rows)

SpecPipeline == InitPipeline /\ [][PipelineNext]_vars

----------------------------------------------------------------------------
(***************************************************************************)
(* scraper/ptr_details.py: the rows of parse_ptr_trades_from_html          *)
(***************************************************************************)

MaxBodyRows == 2

\* ptr_details.py:92.
MinCells == 9

\* A <tr> of the table's <tbody>, by what the loop looks at: the number
\* of its <td> cells, whether the ticker cell holds an <a>, the stripped
\* text of the <a> and of the cell, and the text of the date cell.
BodyRow(cells, link, link_text, text, date) ==
    [cells |-> cells, link |-> link, link_text |-> link_text, text |-> text,
     date |-> date]

BodyRows ==
    {BodyRow(cells, TRUE, text, text, date) :
        cells \in {MinCells - 1, MinCells}, text \in {"MSFT", "", "--"},
        date \in {"01/02/2024", "Jan 2"}}
    \cup {BodyRow(cells, FALSE, "", text, date) :
        cells \in {MinCells - 1, MinCells}, text \in {"AAPL", "", "-", "--"},
        date \in {"01/02/2024", "Jan 2"}}

TooFewCellsOrJustEnough(n) == n <= MinCells

\* ptr_details.py:92-93.
TooFewCells(n) == n < MinCells

\* ptr_details.py:109-115: the text of the link when there is one, else
\* the text of the cell, or None when that is empty.
Ticker(row) ==
    IF row.link THEN row.link_text
    ELSE IF row.text = "" THEN PyNone ELSE row.text

\* ptr_details.py:116.
PrivateTickers == {"", "-", "--"}

\* ptr_details.py:92-93, 117-119: the row is passed over.
RowSkipped(row) ==
    \/ TooFewCells(row.cells)
    \/ Ticker(row) = PyNone
    \/ Ticker(row) \in PrivateTickers

\* ptr_details.py:129-133: strptime(raw, "%m/%d/%Y"), None when it fails.
TransactionDate(raw) == IF raw = "01/02/2024" THEN "2024-01-02" ELSE PyNone

\* ptr_details.py:142-166: the trade of body row k.
TradeOfRow(rows, k) ==
    [row |-> k, ticker |-> Ticker(rows[k]),
     transaction_date |-> TransactionDate(rows[k].date)]

\* ptr_details.py:88-168: the loop over the body rows.
ParsePtrTradesFromRows(rows) ==
    LET kept == SelectSeq([k \in 1..Len(rows) |-> k],
                          LAMBDA k : ~RowSkipped(rows[k]))
    IN  [j \in 1..Len(kept) |-> TradeOfRow(rows, kept[j])]

ParseBody ==
    /\ call_pc = "called"
    /\ call_pc' = "returned"
    /\ call_result' = ParsePtrTradesFromRows(call_arg)
    /\ UNCHANGED call_arg
    /\ UNCHANGED notCall

\* parse_ptr_trades_from_html was called on a page whose table has a
\* <tbody> of these rows.
RowsInit ==
    /\ call_pc = "called"
    /\ call_arg \in {<<>>} \cup ListsOf(BodyRows, MaxBodyRows)
    /\ call_result = <<>>

InitRows ==
    /\ UpsertInit /\ ScrapeIdle /\ LoadIdle /\ Idle
    /\ RowsInit

SpecRows == InitRows /\ [][ParseBody]_vars

----------------------------------------------------------------------------
(***************************************************************************)
(* scraper/parse.py: parse_amount_range and normalize_transaction_type.    *)
(* A Python str is the sequence of its characters; a str argument that is  *)
(* None is NoneText.  An optional float is <<>> for None and <<h>> for the *)
(* float h / 2: amounts are counted in halves, which makes the midpoint of *)
(* two whole amounts a number.                                             *)
(***************************************************************************)

MaxAmountLen == 3

NoneText == <<PyNone>>

Null == <<>>
Nulls == <<Null, Null, Null>>

UpperCase == <<"E", "F", "G", "O", "P", "R", "S", "V">>
LowerCase == <<"e", "f", "g", "o", "p", "r", "s", "v">>

\* str.lower(), of a character and of a string.
LowerChar(c) ==
    IF \E k \in 1..Len(UpperCase) : UpperCase[k] = c
    THEN LowerCase[CHOOSE k \in 1..Len(UpperCase) : UpperCase[k] = c]
    ELSE c

Lower(text) == [k \in 1..Len(text) |-> LowerChar(text[k])]

\* str.strip(): the text without its leading and trailing blanks.
Strip(text) ==
    LET inked == {k \in 1..Len(text) : text[k] # " "}
    IN  IF inked = {} THEN <<>>
        ELSE SubSeq(text,
                    CHOOSE k \in inked : \A j \in inked : k <= j,
                    CHOOSE k \in inked : \A j \in inked : j <= k)

\* str.startswith(prefix).
StartsWith(text, prefix) ==
    /\ Len(text) >= Len(prefix)
    /\ SubSeq(text, 1, Len(prefix)) = prefix

\* `word in text`.
Contains(text, word) ==
    \E k \in 0..(Len(text) - Len(word)) : SubSeq(text, k + 1, k + Len(word)) = word

\* str.replace(c, "") for a character c.
Without(text, c) == SelectSeq(text, LAMBDA x : x # c)

\* parse.py:144, 154-155, 164: the currency sign and the thousands
\* separators are taken out and the blanks around the rest stripped.
Clean(text) == Strip(Without(Without(text, "$"), ","))

Digits == <<"0", "1", "2", "3", "4", "5", "6", "7", "8", "9">>

IsDigit(c) == \E k \in 1..Len(Digits) : Digits[k] = c

DigitValue(c) == (CHOOSE k \in 1..Len(Digits) : Digits[k] = c) - 1

RECURSIVE Number(_)
\* The number a string of digits writes.
Number(text) ==
    IF text = <<>> THEN 0
    ELSE 10 * Number(SubSeq(text, 1, Len(text) - 1))
         + DigitValue(text[Len(text)])

\* float(text) does not raise ValueError: of the characters tried, the
\* text is digits after an optional sign.
IsFloat(text) ==
    LET digits == IF text # <<>> /\ text[1] = "-" THEN Tail(text) ELSE text
    IN  /\ digits # <<>>
        /\ \A k \in 1..Len(digits) : IsDigit(digits[k])

\* float(text), in halves.
Float(text) ==
    IF text[1] = "-" THEN <<0 - 2 * Number(Tail(text))>>
    ELSE <<2 * Number(text)>>

\* str.split("-", 1) of a text that holds a "-".
SplitAtFirstDash(text) ==
    LET k == CHOOSE i \in 1..Len(text) :
                 text[i] = "-" /\ \A j \in 1..(i - 1) : text[j] # "-"
    IN  <<SubSeq(text, 1, k - 1), SubSeq(text, k + 1, Len(text))>>

MidPointIsSum(low, high) == <<low[1] + high[1]>>

\* parse.py:159: (low + high) / 2.0.
MidPoint(low, high) == <<(low[1] + high[1]) \div 2>>

Over == <<"o", "v", "e", "r">>

\* parse.py:123-170.
ParseAmountRange(amount_str) ==
    IF amount_str = NoneText \/ amount_str = <<>> THEN Nulls
    ELSE LET s == Strip(amount_str)
         IN  IF StartsWith(Lower(s), Over)
             THEN LET num_part == Clean(Strip(SubSeq(s, 5, Len(s))))
                  IN  IF ~IsFloat(num_part) THEN Nulls
                      ELSE <<Float(num_part), Null, Null>>
             ELSE IF Contains(s, <<"-">>)
             THEN LET low_str == Clean(SplitAtFirstDash(s)[1])
                      high_str == Clean(SplitAtFirstDash(s)[2])
                  IN  IF ~IsFloat(low_str) \/ ~IsFloat(high_str) THEN Nulls
                      ELSE <<Float(low_str), Float(high_str),
                             MidPoint(Float(low_str), Float(high_str))>>
             ELSE IF ~IsFloat(Clean(s)) THEN Nulls
             ELSE <<Float(Clean(s)), Float(Clean(s)), Float(Clean(s))>>

ParseAmount ==
    /\ call_pc = "called"
    /\ call_pc' = "returned"
    /\ call_result' = ParseAmountRange(call_arg)
    /\ UNCHANGED call_arg
    /\ UNCHANGED notCall

RECURSIVE TextsOf(_, _)
\* The texts of at most n characters of an alphabet.
TextsOf(alphabet, n) ==
    IF n = 0 THEN {<<>>}
    ELSE TextsOf(alphabet, n - 1)
         \cup {Append(text, c) : text \in TextsOf(alphabet, n - 1), c \in alphabet}

\* The amount cells tried: None, texts of the source's kinds, and every
\* short text of signs, separators, digits and a letter, as it is and
\* after a prefix.
AmountTexts ==
    {NoneText,
     <<"$", "1", ",", "0", "0", "1", " ", "-", " ",
       "$", "1", "5", ",", "0", "0", "0">>,
     <<"O", "v", "e", "r", " ",
       "$", "5", "0", ",", "0", "0", "0", ",", "0", "0", "0">>,
     <<"$", "2", "5", "0">>,
     <<"$", "1", "5", ",", "0", "0", "1", " ", "-">>}
    \cup {prefix \o text :
             prefix \in {<<>>, <<"o", "v", "e", "r">>,
                         <<"O", "v", "e", "r", " ">>, <<"o", "v", "e">>},
             text \in TextsOf({"$", ",", "-", " ", "1", "2", "x"}, MaxAmountLen)}

\* parse_amount_range was called (ptr_details.py:135).
AmountInit ==
    /\ call_pc = "called"
    /\ call_arg \in AmountTexts
    /\ call_result = <<>>

InitAmount ==
    /\ UpsertInit /\ ScrapeIdle /\ LoadIdle /\ Idle
    /\ AmountInit

SpecAmount == InitAmount /\ [][ParseAmount]_vars

MaxWords == 2

Buy == <<"B", "U", "Y">>
Sell == <<"S", "E", "L", "L">>
Exchange == <<"E", "X", "C", "H", "A", "N", "G", "E">>

IsPurchaseWord(text) ==
    text = <<"p", "u", "r", "c", "h", "a", "s", "e">> \/ text = <<"p">>

\* parse.py:192.
IsPurchase(text) ==
    Contains(text, <<"p", "u", "r", "c", "h", "a", "s", "e">>) \/ text = <<"p">>

\* parse.py:194.
IsSale(text) == Contains(text, <<"s", "a", "l", "e">>) \/ text = <<"s">>

\* parse.py:196.
IsExchange(text) == Contains(text, <<"e", "x", "c", "h", "a", "n", "g", "e">>)

\* parse.py:173-199.
NormalizeTransactionType(raw) ==
    IF raw = NoneText THEN NoneText
    ELSE LET text == Lower(Strip(raw))
         IN  IF text = <<>> THEN NoneText
             ELSE IF IsPurchase(text) THEN Buy
             ELSE IF IsSale(text) THEN Sell
             ELSE IF IsExchange(text) THEN Exchange
             ELSE Strip(raw)

NormalizeType ==
    /\ call_pc = "called"
    /\ call_pc' = "returned"
    /\ call_result' = NormalizeTransactionType(call_arg)
    /\ UNCHANGED call_arg
    /\ UNCHANGED notCall

\* The words of a type cell.
TypeWords ==
    {<<>>, <<"P", "u", "r", "c", "h", "a", "s", "e">>,
     <<"S", "a", "l", "e", " ", "(", "F", "u", "l", "l", ")">>,
     <<"E", "x", "c", "h", "a", "n", "g", "e">>, <<"P">>, <<"s">>,
     <<"G", "i", "f", "t">>}

RECURSIVE Join(_)
\* " ".join(words).
Join(words) ==
    IF Len(words) = 1 THEN words[1]
    ELSE words[1] \o <<" ">> \o Join(Tail(words))

\* The type cells tried: None, and one to MaxWords words with and without
\* blanks around them.
TypeTexts ==
    {NoneText}
    \cup {before \o Join(words) \o after :
             before \in {<<>>, <<" ">>}, after \in {<<>>, <<" ">>},
             words \in ListsOf(TypeWords, MaxWords)}

\* normalize_transaction_type was called (ptr_details.py:136).
TypeInit ==
    /\ call_pc = "called"
    /\ call_arg \in TypeTexts
    /\ call_result = <<>>

InitType ==
    /\ UpsertInit /\ ScrapeIdle /\ LoadIdle /\ Idle
    /\ TypeInit

SpecType == InitType /\ [][NormalizeType]_vars

InitRace ==
    /\ RaceInit /\ ScrapeIdle /\ LoadIdle /\ CallIdle /\ Idle

SpecRace == InitRace /\ [][RaceNext]_vars

----------------------------------------------------------------------------
(***************************************************************************)
(* Claims about upsert_trades (checked under SpecUpsert)                   *)
(***************************************************************************)

\* The natural key of a trade record: its five identity fields, a null
\* component (None, or the NaN a DataFrame round trip makes of it) being
\* null.
NatKey(t) == RowIdentity(TradeFromDict(t))

NatKeysOf(batch) == {NatKey(batch[k]) : k \in 1..Len(batch)}
IdentitiesOf(table) == {RowIdentity(row) : row \in BagToSet(table)}

HasNaN(t) ==
    \/ t.senator_name \in NaNObjects
    \/ t.ticker \in NaNObjects
    \/ t.transaction_date \in NaNObjects
    \/ t.amount_min \in NaNObjects
    \/ t.amount_max \in NaNObjects
NaNFree(batch) == \A k \in 1..Len(batch) : ~HasNaN(batch[k])

\* Number of rows with identity `id` that the finished call added.
RowsAdded(id) ==
    BagCardinality([row \in {r \in BagToSet(trades_table) : RowIdentity(r) = id}
                        |-> CopiesIn(row, trades_table)])
    - BagCardinality([row \in {r \in BagToSet(up_before) : RowIdentity(r) = id}
                        |-> CopiesIn(row, up_before)])

\* C1: calling upsert_trades(L) twice in succession: after the first call
\* every distinct natural key of L has a row, and the second call returns 0
\* and leaves the trades table unchanged.
C1_TwiceInsertsOnceThenZero ==
    up_pc = "done" =>
        /\ NatKeysOf(up_trades) \subseteq IdentitiesOf(trades_table)
        /\ up_repeat => (inserted = 0 /\ trades_table = up_before)

\* C2: after any sequence of upsert_trades calls the trades table never
\* holds two rows with the same natural key.
C2_NoTwoRowsShareNaturalKey ==
    \A row \in BagToSet(trades_table) :
        /\ CopiesIn(row, trades_table) = 1
        /\ \A other \in BagToSet(trades_table) :
               RowIdentity(other) = RowIdentity(row) => other = row

\* C3: records that agree on the natural key and differ in another field
\* (comment) are one trade: for two such records in one batch exactly one
\* row is inserted, and none when the key is already stored.
C3_SameKeyOtherFieldsDiffer ==
    up_pc = "done" =>
        \A i \in 1..Len(up_trades) :
            LET id == NatKey(up_trades[i])
                stored == id \in IdentitiesOf(up_before)
                twin == \E j \in 1..Len(up_trades) :
                            /\ j # i
                            /\ NatKey(up_trades[j]) = id
                            /\ up_trades[j].comment # up_trades[i].comment
            IN  /\ stored => RowsAdded(id) = 0
                /\ (twin /\ ~stored) => RowsAdded(id) = 1

\* C4: upsert_trades(B) returns the number of rows it added, which is the
\* number of distinct natural keys of B absent from the table before the
\* call; no row is added for a key that was already stored.
C4_ReturnsCountOfNewKeys ==
    up_pc = "done" =>
        /\ inserted = BagCardinality(trades_table) - BagCardinality(up_before)
        /\ inserted = Cardinality(NatKeysOf(up_trades) \ IdentitiesOf(up_before))
        /\ \A id \in IdentitiesOf(up_before) : RowsAdded(id) = 0

\* What does hold of the code (C1, C4 on lists that carry no NaN): such a
\* list adds one row per distinct natural key that no stored row has, and
\* repeating it adds nothing.
NaNFreeListsAreIdempotent ==
    (up_pc = "done" /\ NaNFree(up_trades)) =>
        /\ inserted = BagCardinality(trades_table) - BagCardinality(up_before)
        /\ inserted = Cardinality(NatKeysOf(up_trades) \ IdentitiesOf(up_before))
        /\ \A id \in IdentitiesOf(up_before) : RowsAdded(id) = 0
        /\ up_repeat => (inserted = 0 /\ trades_table = up_before)

\* The return value is always the number of rows added (first part of C4).
ReturnsRowsAdded ==
    up_pc = "done" =>
        inserted = BagCardinality(trades_table) - BagCardinality(up_before)

----------------------------------------------------------------------------
(***************************************************************************)
(* Claims about the report search and the session bootstrap (SpecScrape,   *)
(* SpecScrapeFair)                                                         *)
(***************************************************************************)

\* ceil(n / d) for d > 0.
CeilDiv(n, d) == (n + d - 1) \div d

\* C5: against a source that honours offset and page length over N rows
\* and reports recordsFiltered = N, fetch_all_reports with page size P
\* returns exactly the N rows, in source order, without duplicate or gap,
\* after exactly max(1, ceil(N / P)) page requests.
C5_HonestSourceAllRowsInCeilRequests ==
    src_honest =>
        /\ f_pc # "raised"
        /\ f_pc = "returned" =>
               /\ f_data = RowsFrom(1, src_n)
               /\ f_requests = IF src_n = 0 THEN 1 ELSE CeilDiv(src_n, page_size)

\* C5's case: five rows in pages of two arrive after three requests (the
\* 250 rows in pages of 100 of the specification, scaled down).
C5_Witness ==
    /\ src_honest /\ f_pc = "returned"
    /\ src_n = 5 /\ page_size = 2 /\ f_requests = 3 /\ Len(f_data) = 5

\* C6 (safety): the paging loop runs only while fewer rows than the first
\* page's recordsFiltered are accumulated, and a page of zero rows ends it
\* with a return of the rows accumulated, not with an error.
C6_LoopStopsState ==
    /\ f_pc = "loop" => Len(f_data) < records_filtered
    /\ (f_requests >= 2 /\ ~PageRaises(f_last) /\ f_last.nrows = 0) =>
           f_pc = "returned"

\* C6: the loop stops as soon as the accumulated count reaches
\* recordsFiltered or a page has zero rows (a return, not an error), and a
\* page request never removes or changes rows already accumulated; so the
\* call terminates, the source answering every request.
C6_PagingLoopStops ==
    /\ [](C6_LoopStopsState)
    /\ [][f_pc = "loop" =>
            /\ SubSeq(f_data', 1, Len(f_data)) = f_data
            /\ (f_pc' = "loop" => Len(f_data') > Len(f_data))]_vars
    /\ <>(run_pc \in {"listed", "aborted"})

\* C6's case: a later page came back empty before recordsFiltered was
\* reached, and the call returned what it had.
C6_Witness ==
    /\ f_pc = "returned" /\ f_requests >= 3 /\ f_last.nrows = 0
    /\ Len(f_data) > 0 /\ Len(f_data) < records_filtered

\* C7: a page request answered with HTTP 403 makes fetch_reports_page
\* raise; fetch_all_reports propagates the error, returns nothing, and the
\* run is aborted, whatever had been accumulated; nothing is requested
\* once the error is raised.
C7_Http403AbortsRun ==
    /\ f_last.status = 403 => (f_pc = "raised" /\ run_pc = "aborted")
    /\ f_pc = "raised" => (run_pc = "aborted" /\ ~ENABLED ScrapeNext)

\* C7's case: the 403 answers a later page, rows of earlier pages being
\* accumulated already.
C7_Witness ==
    /\ f_last.status = 403 /\ f_requests >= 2 /\ Len(f_data) > 0
    /\ f_pc = "raised"

\* C8: create_efd_session fails with an error when the CSRF token cannot
\* be located in the landing page or when the acknowledgment POST is
\* rejected; in neither case does it return a session.
C8_SessionFailsWithoutTokenOrAck ==
    (ses_landing \in {"no_token", "token_without_value"} \/ ses_post = "rejected")
        => (ses_pc = "raised" /\ run_pc = "aborted")

----------------------------------------------------------------------------
(***************************************************************************)
(* Claims about load_trades_df (SpecLoad)                                  *)
(***************************************************************************)

\* A connection timeout as the driver reports it: an OperationalError
\* whose message carries HYT00 or "Login timeout expired".
TimedOut(outcome) ==
    /\ outcome.class = "OperationalError"
    /\ outcome.msg \in {"HYT00", "Login timeout expired"}

\* C9: if the connection times out on the first k attempts
\* (k < max_retries) and succeeds on attempt k + 1, load_trades_df returns
\* the query result and makes exactly k + 1 attempts: after k timeouts it
\* is still trying, and the success of attempt k + 1 is its return.
C9_SucceedsAfterKTimeouts ==
    \A k \in 0..Len(l_outcomes) :
        (k < max_retries /\ \A j \in 1..k : TimedOut(l_outcomes[j])) =>
            /\ Len(l_outcomes) = k => (l_pc = "trying" /\ attempt = k + 1)
            /\ (Len(l_outcomes) > k /\ l_outcomes[k + 1] = Success) =>
                   /\ l_pc = "returned"
                   /\ l_result = "query_result"
                   /\ Len(l_outcomes) = k + 1

\* C9's case: two timeouts, then success on the third attempt, under the
\* ceiling of 5.
C9_Witness ==
    /\ max_retries = 5 /\ l_pc = "returned" /\ Len(l_outcomes) = 3
    /\ TimedOut(l_outcomes[1]) /\ TimedOut(l_outcomes[2])
    /\ l_outcomes[3] = Success /\ l_result = "query_result"

\* C10: an error that is not a timeout propagates on the attempt where it
\* occurs, with no further attempt; when every attempt times out the error
\* propagates after exactly max_retries attempts; the wait after the k-th
\* failed attempt is backoff_seconds * k and no wait follows the final
\* attempt.
C10_ErrorsPropagateLinearBackoff ==
    /\ Len(l_outcomes) <= max_retries
    /\ \A j \in 1..Len(l_outcomes) :
           (l_outcomes[j] # Success /\ ~TimedOut(l_outcomes[j])) =>
               (j = Len(l_outcomes) /\ l_pc = "raised")
    /\ (/\ max_retries >= 1
        /\ Len(l_outcomes) = max_retries
        /\ \A j \in 1..Len(l_outcomes) : TimedOut(l_outcomes[j]))
       => (l_pc = "raised" /\ Len(l_sleeps) = max_retries - 1)
    /\ \A k \in 1..Len(l_sleeps) : l_sleeps[k] = backoff_seconds * k
    /\ Len(l_sleeps) =
           IF l_pc = "trying" THEN Len(l_outcomes)
           ELSE IF l_outcomes = <<>> THEN 0 ELSE Len(l_outcomes) - 1

\* C10's case: every one of the five attempts timed out; the waits were
\* 2, 4, 6 and 8 seconds and the error propagated after the fifth.
C10_Witness ==
    /\ max_retries = 5 /\ backoff_seconds = 2 /\ l_pc = "raised"
    /\ Len(l_outcomes) = 5
    /\ \A j \in 1..5 : TimedOut(l_outcomes[j])
    /\ l_sleeps = <<2, 4, 6, 8>>

----------------------------------------------------------------------------
(***************************************************************************)
(* Claims about the price cache (SpecPrice)                                *)
(***************************************************************************)

IsOnOrBefore(call) == call.fn = "get_price_on_or_before"
IsLatest(call) == call.fn = "get_latest_price"

\* The trading days the source has in the 30 days up to `date`.
SourceDays(ticker, date) ==
    {d \in src_days[ticker] : date - WindowDays <= d /\ d <= date}

\* The latest of a set of days.
Latest(days) == CHOOSE d \in days : \A other \in days : other <= d

\* The first lookup of a ticker the cache has nothing of, answered by the
\* source with at least one close.
ColdAndAnswered(call) ==
    IsOnOrBefore(call) /\ call.cold /\ call.fetch = "ok" /\ call.closes >= 1

\* C11: for a ticker with no cache entries and a source that returns at
\* least one close in the window, get_price_on_or_before(ticker, D) writes
\* at least one cache row with date <= D and returns a price; a later call
\* with the same ticker and D returns the same price without any external
\* fetch.
C11_ColdLookupFillsCacheThenHits ==
    \A i \in 1..Len(p_calls) :
        ColdAndAnswered(p_calls[i]) =>
            /\ \E row \in BagToSet(price_cache) :
                   /\ row.ticker = p_calls[i].ticker
                   /\ row.date <= p_calls[i].date
            /\ p_calls[i].result \notin {PyNone, "IntegrityError"}
            /\ \A j \in (i + 1)..Len(p_calls) :
                   (/\ IsOnOrBefore(p_calls[j])
                    /\ p_calls[j].ticker = p_calls[i].ticker
                    /\ p_calls[j].date = p_calls[i].date)
                   => (/\ p_calls[j].result = p_calls[i].result
                       /\ p_calls[j].fetch = "none")

\* C11's case: the cold lookup of a day without trading (the close is an
\* earlier day's), and the same lookup again.
C11_Witness ==
    /\ Len(p_calls) >= 2
    /\ ColdAndAnswered(p_calls[1])
    /\ p_calls[1].result # Close(p_calls[1].ticker, p_calls[1].date)
    /\ IsOnOrBefore(p_calls[2])
    /\ p_calls[2].ticker = p_calls[1].ticker
    /\ p_calls[2].date = p_calls[1].date
    /\ p_calls[2].fetch = "none"

\* C12: after any sequence of get_price_on_or_before and get_latest_price
\* calls, overlapping fetch windows included, the price cache holds at
\* most one entry per (ticker, date), and no lookup ran into the unique
\* constraint.
C12_OneEntryPerTickerDate ==
    /\ ~PriceUniqueViolated(price_cache)
    /\ \A i \in 1..Len(p_calls) : p_calls[i].result # "IntegrityError"

\* C12's case: get_latest_price fetched a window whose last close the
\* cache held already, from an earlier get_price_on_or_before.
C12_Witness ==
    /\ Len(p_calls) >= 2
    /\ ColdAndAnswered(p_calls[1]) /\ p_calls[1].date = Today
    /\ IsLatest(p_calls[2]) /\ p_calls[2].ticker = p_calls[1].ticker
    /\ p_calls[2].fetch = "ok" /\ p_calls[2].closes >= 2
    /\ p_calls[2].result = p_calls[1].result

\* C13: whatever lookups were made before it,
\* get_price_on_or_before(ticker, D), its fetch (if any) answered, returns
\* the close of the closest trading day at or before D that the source has
\* in the 30 days up to D, and null only when the source has no such day.
C13_ReturnsClosestPriorClose ==
    \A i \in 1..Len(p_calls) :
        LET call == p_calls[i]
            days == SourceDays(call.ticker, call.date)
        IN  (IsOnOrBefore(call) /\ call.fetch \in {"none", "ok"}) =>
                /\ days # {} => call.result = Close(call.ticker, Latest(days))
                /\ call.result = PyNone => days = {}

\* C14 as claimed: with an entry for the ticker in the cache,
\* get_latest_price returns the most recent cached price without
\* contacting the source.
C14_LatestPriceIsCacheFirst ==
    \A i \in 1..Len(p_calls) :
        (IsLatest(p_calls[i]) /\ ~p_calls[i].cold) => p_calls[i].fetch = "none"

\* C14 (amended): get_latest_price(ticker) is fetch-first: every call asks
\* the source for the 30 days up to today, whatever the cache holds; it
\* returns the last close of the answer, which the cache then holds as the
\* one entry of that day, and null when the fetch fails or is empty.
C14_LatestPriceIsFetchFirst ==
    \A i \in 1..Len(p_calls) :
        LET call == p_calls[i]
            days == SourceDays(call.ticker, Today)
        IN  IsLatest(call) =>
                /\ call.fetch \in FetchOutcomes
                /\ call.start = Today - WindowDays /\ call.end = Today + 1
                /\ IF call.fetch = "ok" /\ days # {}
                   THEN /\ call.result = Close(call.ticker, Latest(days))
                        /\ \E row \in BagToSet(price_cache) :
                               /\ row.ticker = call.ticker
                               /\ row.date = Latest(days)
                               /\ row.price = call.result
                               /\ CopiesIn(row, price_cache) = 1
                   ELSE call.result = PyNone

\* C14's case: the cache held closes of the ticker, and get_latest_price
\* fetched all the same and returned the last of several closes.
C14_Witness ==
    \E i \in 1..Len(p_calls) :
        /\ IsLatest(p_calls[i]) /\ ~p_calls[i].cold
        /\ p_calls[i].fetch = "ok" /\ p_calls[i].closes >= 2
        /\ p_calls[i].result = Close(p_calls[i].ticker, Today)

----------------------------------------------------------------------------
(***************************************************************************)
(* Claims about an enrichment run (SpecEnrich)                             *)
(***************************************************************************)

\* A lookup went to the source.
Fetched(call) == call.fetch # "none"

\* Its fetch failed or brought nothing.
Missed(call) == Fetched(call) /\ (call.fetch = "error" \/ call.closes = 0)

\* A price field without a value: None, or the NaN of a float column.
IsNull(v) == v = PyNone \/ \E k \in 1..MaxTrades : v = NaNObject(k)

\* C15: a failed or empty fetch for one trade's ticker leaves that trade's
\* price field null and raises nothing; every distinct pair and every
\* ticker is still looked up and every trade gets the result of its own
\* lookup; run_ingest hands every trade, in order, to upsert_trades.
C15_FailedFetchLeavesNullAndGoesOn ==
    /\ e_pc # "raised" /\ i_pc # "raised"
    /\ \A i \in 1..Len(p_calls) : Missed(p_calls[i]) => p_calls[i].result = PyNone
    /\ e_pc \in {"latest", "done"} =>
           \A k \in 1..Len(e_trades) :
               \E i \in 1..Len(p_calls) :
                   /\ IsOnOrBefore(p_calls[i])
                   /\ p_calls[i].ticker = e_trades[k].ticker
                   /\ p_calls[i].date = e_trades[k].transaction_date
                   /\ e_price_at_transaction[k] = p_calls[i].result
    /\ e_pc = "done" =>
           \A k \in 1..Len(e_trades) :
               \E i \in 1..Len(p_calls) :
                   /\ IsLatest(p_calls[i])
                   /\ p_calls[i].ticker = e_trades[k].ticker
                   /\ e_current_price[k] = p_calls[i].result
    /\ i_pc = "upsert" =>
           /\ Len(i_arg) = Len(e_trades)
           /\ \A k \in 1..Len(e_trades) :
                  /\ i_arg[k].ticker = e_trades[k].ticker
                  /\ i_arg[k].transaction_date = e_trades[k].transaction_date
                  /\ IsNull(i_arg[k].price_at_transaction)
                         <=> e_price_at_transaction[k] = PyNone
                  /\ IsNull(i_arg[k].current_price)
                         <=> e_current_price[k] = PyNone

\* C15's case: the first trade's fetch failed, a later trade of another
\* ticker got its price, and all trades reached upsert_trades.
C15_Witness ==
    /\ i_pc = "upsert" /\ Len(i_arg) >= 2
    /\ p_calls[1].fetch = "error"
    /\ IsNull(i_arg[1].price_at_transaction)
    /\ \E k \in 2..Len(i_arg) :
           /\ i_arg[k].ticker # i_arg[1].ticker
           /\ ~IsNull(i_arg[k].price_at_transaction)

\* Two lookups fetched the same ticker over the same window.
SameFetch(a, b) ==
    /\ Fetched(a) /\ Fetched(b)
    /\ a.ticker = b.ticker /\ a.start = b.start /\ a.end = b.end

\* C16 as claimed: once a fetch for a ticker and window has failed or
\* returned nothing, no further fetch of that ticker and window is issued
\* in the run.
C16_MissIsPermanent ==
    \A i \in 1..Len(p_calls) : \A j \in (i + 1)..Len(p_calls) :
        Missed(p_calls[i]) => ~SameFetch(p_calls[i], p_calls[j])

\* C16 (amended): in one enrichment run get_price_on_or_before is called
\* once per distinct (ticker, transaction date) and get_latest_price once
\* per ticker, so the lookup whose fetch failed or returned nothing does
\* not fetch that ticker and window again; the one further fetch of the
\* same ticker and window is get_latest_price's, when the transaction date
\* is today.
C16_MissNotRetriedByItsLookup ==
    \A i \in 1..Len(p_calls) : \A j \in (i + 1)..Len(p_calls) :
        LET a == p_calls[i]
            b == p_calls[j]
        IN  /\ (a.fn = b.fn /\ a.ticker = b.ticker) => a.date # b.date
            /\ (Missed(a) /\ SameFetch(a, b)) =>
                   (IsOnOrBefore(a) /\ a.date = Today /\ IsLatest(b))

\* C16's case: the fetch for a trade dated today failed, and
\* get_latest_price fetched the same ticker and window afterwards.
C16_Witness ==
    /\ e_pc = "done"
    /\ \E i \in 1..Len(p_calls) : \E j \in (i + 1)..Len(p_calls) :
           /\ Missed(p_calls[i]) /\ SameFetch(p_calls[i], p_calls[j])
           /\ IsLatest(p_calls[j])

----------------------------------------------------------------------------
(***************************************************************************)
(* Claims about the listing rows and the detail pages (SpecDetail)         *)
(***************************************************************************)

\* The PTR reports of the rows of the listing that are well formed.
WellFormedPtrRows ==
    {k \in 1..Len(d_rows) :
        /\ d_rows[k].fields >= 5
        /\ d_rows[k].link = "a_href"
        /\ d_rows[k].filed = "01/13/2026"
        /\ d_rows[k].format = "ptr"}

\* C17: when a listing row is malformed (fewer than 5 fields, no
\* hyperlink with an href, an unparseable filing date), parse_report_rows
\* skips it and returns the records of all other rows; the batch is not
\* aborted.
C17_MalformedRowIsSkipped ==
    d_pc # "start" =>
        /\ d_pc # "raised_in_parse"
        /\ {d_reports[k].row : k \in 1..Len(d_reports)} = WellFormedPtrRows

\* C18: when a filing's detail page has no recognizable transactions
\* table, fetch_ptr_trades_for_reports skips that filing and goes on to
\* every other filing, the later ones included.
C18_FilingWithoutTableIsSkipped ==
    \A k \in 1..Len(d_pages) :
        (d_pages[k].status = 200 /\ d_pages[k].table = "none") =>
            /\ d_pc \in {"details", "returned"}
            /\ d_pc = "details" \/ Len(d_pages) = Len(d_reports)

\* C19: a detail fetch that returns HTTP 200 and carries the
\* disclaimer/landing-page marker is a table-not-found failure of
\* fetch_ptr_trades, never a success, be it with zero trades or with
\* trades parsed from the landing page.
C19_LandingPageIsTableNotFound ==
    \A k \in 1..Len(d_pages) :
        (d_pages[k].status = 200 /\ d_pages[k].marker) =>
            d_results[k].raised = "ValueError"

----------------------------------------------------------------------------
(***************************************************************************)
(* Claims about run_ingest (SpecIngest)                                    *)
(***************************************************************************)

\* C20 (the states): enrichment starts only when the fetch is over,
\* upsert_trades starts only when enrichment is over and is called at most
\* once, and the summary reports the count that call returned and the
\* number of trades parsed, the former never above the latter.
C20_OrderState ==
    /\ e_pc # "idle" => i_pc # "fetch"
    /\ up_pc \in {"loop", "done", "raised"} => e_pc = "done"
    /\ up_calls <= 1
    /\ i_pc = "nothing" => (e_pc = "idle" /\ up_calls = 0)
    /\ i_pc = "reported" =>
           /\ up_calls = 1 /\ up_pc = "done"
           /\ i_summary.inserted = inserted
           /\ i_summary.total = Len(up_trades)
           /\ i_summary.total = Len(i_arg)
           /\ i_summary.inserted <= i_summary.total

\* C20: in every run of run_ingest the steps happen in the order: fetch
\* and parse all trades, then enrich prices, then a single upsert_trades
\* call; no trade is parsed once enrichment has started and no price is
\* looked up once upsert_trades has started; the summary then reports an
\* inserted count that never exceeds the reported total of parsed trades.
C20_FetchEnrichUpsertReport ==
    /\ [](C20_OrderState)
    /\ [][/\ e_pc # "idle" => Len(up_trades') = Len(up_trades)
          /\ up_pc \notin {"idle", "parsing"} =>
                 (p_calls' = p_calls /\ price_cache' = price_cache)]_vars

\* C20's case: two trades of one natural key were parsed, their prices
\* looked up, and the summary reports 1 inserted of 2.
C20_Witness ==
    /\ i_pc = "reported"
    /\ i_summary = [inserted |-> 1, total |-> 2]
    /\ Len(p_calls) = 2

----------------------------------------------------------------------------
(***************************************************************************)
(* Claims about fetch_ptr_trades_for_range (checked under SpecPipeline)    *)
(***************************************************************************)

ListingRequests == {k \in 1..Len(http_log) : http_log[k].request = "listing"}
DetailRequests == {k \in 1..Len(http_log) : http_log[k].request = "detail"}

\* C21, as stated: one run bootstraps one HTTP session only, and every
\* listing page request and every detail fetch is sent with it.
C21_OneSessionForAllRequests ==
    /\ n_sessions <= 1
    /\ \A k \in 1..Len(http_log) : http_log[k].session = 1

\* C21, amended: one run bootstraps at most two HTTP sessions, one per
\* phase.  Every listing page request is sent with the first, which
\* fetch_ptr_reports_for_range created; every detail fetch is sent with
\* the second, which fetch_ptr_trades_for_reports created after the
\* listing; and no listing request follows a detail fetch.
C21_OneSessionPerPhase ==
    /\ n_sessions <= 2
    /\ \A k \in ListingRequests :
          /\ http_log[k].session = 1
          /\ \A j \in DetailRequests : k < j
    /\ \A k \in DetailRequests :
          /\ http_log[k].session = 2
          /\ n_sessions = 2

\* A run that returned after two listing pages and two detail fetches.
C21_Witness ==
    /\ d_pc = "returned"
    /\ Cardinality(ListingRequests) >= 2
    /\ Cardinality(DetailRequests) >= 2

----------------------------------------------------------------------------
(***************************************************************************)
(* Claims about two interleaved runs of upsert_trades (checked under       *)
(* SpecRace)                                                               *)
(***************************************************************************)

RECURSIVE CopiesOf(_, _)
\* The number of rows of a table among the given ones.
CopiesOf(rows, table) ==
    IF rows = {} THEN 0
    ELSE LET row == CHOOSE r \in rows : TRUE
         IN  CopiesIn(row, table) + CopiesOf(rows \ {row}, table)

\* The number of rows of the table with the natural key `id`.
RowsOfKey(id) ==
    CopiesOf({row \in BagToSet(trades_table) : RowIdentity(row) = id},
             trades_table)

\* C22: however two runs of upsert_trades with batches that share natural
\* keys interleave, the trades table never holds two rows of one natural
\* key (the uniqueness constraint rejects the later insert).
C22_RaceLeavesOneRowPerKey ==
    \A id \in IdentitiesOf(trades_table) : RowsOfKey(id) = 1

\* What does hold of the two runs: a natural key without a null component
\* is never stored twice, the later commit being rejected.
RaceStoresNonNullKeysOnce ==
    \A id \in IdentitiesOf(trades_table) : ~HasNull(id) => RowsOfKey(id) = 1

\* The later of two commits that share a key without null was rejected.
RaceRejectedLaterInsert ==
    /\ up_pc = "raised"
    /\ up_i = Len(up_trades)
    /\ up_other.pc = "done"
    /\ \E k \in 1..Len(up_pending) :
           /\ ~HasNull(RowIdentity(up_pending[k]))
           /\ RowIdentity(up_pending[k]) \in IdentitiesOf(trades_table)

----------------------------------------------------------------------------
(***************************************************************************)
(* Claims about parse_ptr_trades_from_html (checked under SpecRows)        *)
(***************************************************************************)

\* The ticker a body row shows: the link text when the cell holds a link,
\* else the cell text.
ShownTicker(row) == IF row.link THEN row.link_text ELSE row.text

\* The body rows that are trades: at least 9 cells and a ticker that is
\* neither empty nor a placeholder.
TradeRows ==
    {k \in 1..Len(call_arg) :
        /\ call_arg[k].cells >= 9
        /\ ShownTicker(call_arg[k]) \notin {"", "-", "--"}}

\* C23: parse_ptr_trades_from_html outputs a trade for a body row if and
\* only if the row has at least 9 cells and its ticker is non-empty and
\* not one of "", "-", "--"; the trades come in the order of their rows,
\* each with its row's ticker, and a row that is passed over does not
\* keep the rows after it from being parsed.
C23_TradeIffNineCellsAndTicker ==
    call_pc = "returned" =>
        /\ Len(call_result) = Cardinality(TradeRows)
        /\ {call_result[j].row : j \in 1..Len(call_result)} = TradeRows
        /\ \A j \in 1..Len(call_result) :
              /\ call_result[j].ticker = ShownTicker(call_arg[call_result[j].row])
              /\ \A i \in 1..(j - 1) : call_result[i].row < call_result[j].row

\* A row of 8 cells was passed over and the trade of the row after it,
\* whose date does not parse, was returned.
C23_Witness ==
    /\ call_pc = "returned"
    /\ Len(call_arg) = 2
    /\ call_arg[1].cells < 9
    /\ call_arg[2].cells = 9
    /\ call_arg[2].date = "Jan 2"
    /\ Len(call_result) = 1
    /\ call_result[1].row = 2
    /\ call_result[1].transaction_date = PyNone

----------------------------------------------------------------------------
(***************************************************************************)
(* Claims about parse_amount_range (checked under SpecAmount)              *)
(***************************************************************************)

\* The trimmed text starts with "over", whatever its case.
HasOverPrefix(text) ==
    /\ text # NoneText
    /\ StartsWith(Lower(Strip(text)), <<"o", "v", "e", "r">>)

HasDash(text) == text # NoneText /\ \E k \in 1..Len(text) : text[k] = "-"

\* Nothing but digits, and one at least.
IsWholeNumber(text) ==
    /\ text # NoneText
    /\ text # <<>>
    /\ \A k \in 1..Len(text) :
           text[k] \in {"0", "1", "2", "3", "4", "5", "6", "7", "8", "9"}

\* C24: parse_amount_range never raises, and returns (min, null, null)
\* for an "over" prefix, (min, max, (min + max) / 2) for a range split at
\* the "-", (v, v, v) for a single number, and (null, null, null) when a
\* part is not a number or the input is empty.
C24_AmountShapes ==
    /\ call_pc # "raised"
    /\ call_pc = "returned" =>
          LET r == call_result
          IN  /\ \/ r = Nulls
                 \/ /\ HasOverPrefix(call_arg)
                    /\ r[1] # Null /\ r[2] = Null /\ r[3] = Null
                 \/ /\ ~HasOverPrefix(call_arg) /\ HasDash(call_arg)
                    /\ r[1] # Null /\ r[2] # Null /\ r[3] # Null
                    /\ 2 * r[3][1] = r[1][1] + r[2][1]
                 \/ /\ ~HasOverPrefix(call_arg) /\ ~HasDash(call_arg)
                    /\ r[1] # Null /\ r[2] = r[1] /\ r[3] = r[1]
              /\ (call_arg = NoneText \/ call_arg = <<>>) => r = Nulls
              /\ (\E k \in 1..Len(call_arg) : call_arg[k] = "x") => r = Nulls
              /\ IsWholeNumber(call_arg) => r[1] # Null

\* "$1,001 - $15,000" came to (1001, 15000, 8000.5), in halves.
C24_Witness ==
    /\ call_pc = "returned"
    /\ Len(call_arg) = 16
    /\ HasDash(call_arg)
    /\ call_result = << <<2002>>, <<30000>>, <<16001>> >>

----------------------------------------------------------------------------
(***************************************************************************)
(* Claims about normalize_transaction_type (checked under SpecType)        *)
(***************************************************************************)

\* The raw text holds the word, whatever the case of its letters.
Mentions(raw, word) == Contains(Lower(raw), word)

\* The raw text is the letter alone, whatever its case and the blanks
\* around it.
IsLetter(raw, letter) == Lower(Strip(raw)) = <<letter>>

\* What the claim's priority order gives for a raw text.
ByPriority(raw) ==
    IF Mentions(raw, <<"p", "u", "r", "c", "h", "a", "s", "e">>)
       \/ IsLetter(raw, "p")
    THEN <<"B", "U", "Y">>
    ELSE IF Mentions(raw, <<"s", "a", "l", "e">>) \/ IsLetter(raw, "s")
    THEN <<"S", "E", "L", "L">>
    ELSE IF Mentions(raw, <<"e", "x", "c", "h", "a", "n", "g", "e">>)
    THEN <<"E", "X", "C", "H", "A", "N", "G", "E">>
    ELSE Strip(raw)

IsBlank(raw) == \A k \in 1..Len(raw) : raw[k] = " "

\* C25, as stated: purchase or "p" gives BUY, else sale or "s" gives SELL,
\* else exchange gives EXCHANGE, and every other raw text comes back
\* trimmed and otherwise unchanged.
C25_EveryOtherTextComesBackTrimmed ==
    (call_pc = "returned" /\ call_arg # NoneText) =>
        call_result = ByPriority(call_arg)

\* C25, amended: the same priority order; a raw text that is null, empty
\* or blank gives null; every other raw text comes back trimmed and
\* otherwise unchanged.
C25_BlankIsNullElseByPriority ==
    call_pc = "returned" =>
        IF call_arg = NoneText \/ IsBlank(call_arg)
        THEN call_result = NoneText
        ELSE call_result = ByPriority(call_arg)

\* " Sale (Full) Purchase" came to BUY, the purchase taking priority.
C25_Witness ==
    /\ call_pc = "returned"
    /\ call_arg # NoneText
    /\ Mentions(call_arg, <<"s", "a", "l", "e">>)
    /\ Mentions(call_arg, <<"p", "u", "r", "c", "h", "a", "s", "e">>)
    /\ call_arg[1] = " "
    /\ call_result = <<"B", "U", "Y">>


\* The rows of the table that a run's batch put there.
RowsOfRun(run) ==
    {row \in BagToSet(trades_table) : row.comment = RunComment(run)}

C26_NothingOfFailedBatchState ==
    /\ up_pc = "raised" => RowsOfRun(up_run) = {}
    /\ up_other.pc = "raised" => RowsOfRun(3 - up_run) = {}

\* C26: upsert_trades is all-or-nothing.  The step in which an existence
\* check, an insert or the commit raises leaves the trades table as it
\* was, and no trade of a batch whose call raised is ever in the table;
\* the table changes only in a commit that succeeds, by all the rows the
\* call added to its session.
C26_AllOrNothing ==
    /\ [](C26_NothingOfFailedBatchState)
    /\ [][/\ up_pc' = "raised" /\ up_pc = "loop" => trades_table' = trades_table
          /\ trades_table' # trades_table =>
                /\ up_pc = "loop" /\ up_pc' = "done"
                /\ trades_table' = trades_table (+) SeqToBag(up_pending)]_vars

\* The commit of a run that had added two rows to its session raised,
\* after the other run had committed its rows.
C26_Witness ==
    /\ up_pc = "raised"
    /\ up_i = Len(up_trades)
    /\ Len(up_pending) = 2
    /\ up_other.pc = "done"
    /\ RowsOfRun(3 - up_run) # {}
    /\ RowsOfRun(up_run) = {}

----------------------------------------------------------------------------
(***************************************************************************)
(* Further claims about upsert_trades (checked under SpecUpsert)           *)
(***************************************************************************)

\* Every row the table held when the call started is in it still, with
\* every field as it was (the comment stands for the fields outside the
\* natural key, the two prices among them).
StoredRowsStay ==
    \A row \in BagToSet(up_before) :
        CopiesIn(row, trades_table) >= CopiesIn(row, up_before)

\* The first record of the batch that carries the natural key `id`.
FirstCarrying(id) ==
    up_trades[CHOOSE k \in 1..Len(up_trades) :
                 /\ NatKey(up_trades[k]) = id
                 /\ \A j \in 1..(k - 1) : NatKey(up_trades[j]) # id]

\* C27: a finished call of upsert_trades has left every stored row as it
\* was, and of the records of the batch that carry one natural key, not
\* stored before, the first is the one that is stored: the call added
\* one row of that key, the row of the first record.
C27_StoredRowsStayAndFirstRecordWins ==
    up_pc = "done" =>
        /\ StoredRowsStay
        /\ \A id \in NatKeysOf(up_trades) \ IdentitiesOf(up_before) :
              \A row \in BagToSet(trades_table) :
                  RowIdentity(row) = id =>
                      /\ row = TradeFromDict(FirstCarrying(id))
                      /\ CopiesIn(row, trades_table) = 1

----------------------------------------------------------------------------
(***************************************************************************)
(* A further claim about run_ingest (checked under SpecIngest)             *)
(***************************************************************************)

\* C28: a trade whose natural key has a null component (amount_max of an
\* "Over $X" amount, transaction_date after a failed parse) is
\* deduplicated like any other along parse, DataFrame, enrichment and
\* upsert: however often it was ingested, the table holds it once.
C28_NullKeyTradeStoredOnce ==
    \A id \in IdentitiesOf(trades_table) : HasNull(id) => RowsOfKey(id) <= 1

----------------------------------------------------------------------------
(***************************************************************************)
(* A further claim about the price lookups (checked under SpecPrice)       *)
(***************************************************************************)

\* C29: a get_price_on_or_before or get_latest_price call whose fetch
\* raises or comes back empty returns null and leaves the price cache as
\* it was before the call: no entry added, changed or removed.
C29_MissLeavesCacheAsItWas ==
    [][(/\ Len(p_calls') = Len(p_calls) + 1
        /\ Missed(p_calls'[Len(p_calls')]))
          => /\ p_calls'[Len(p_calls')].result = PyNone
             /\ price_cache' = price_cache]_vars

\* Both functions were called on a cache with entries and missed: one
\* fetch raised and one came back empty.
C29_Witness ==
    /\ price_cache # EmptyBag
    /\ \E j, k \in 1..Len(p_calls) :
          /\ j < k
          /\ \A i \in j..k : Missed(p_calls[i])
          /\ p_calls[j].fn # p_calls[k].fn
          /\ p_calls[j].fetch = "error"
          /\ p_calls[k].fetch # "error"

----------------------------------------------------------------------------
(***************************************************************************)
(* A further claim about fetch_ptr_trades_for_range (checked under         *)
(* SpecPipeline)                                                           *)
(***************************************************************************)

\* The listing rows whose link text is that of a Periodic Transaction
\* Report and whose link path names the format "ptr", in listing order.
ElectronicPtrRows ==
    SelectSeq([k \in 1..Len(d_rows) |-> k],
              LAMBDA k : /\ d_rows[k].title
                              = "Periodic Transaction Report for 01/13/2026"
                         /\ d_rows[k].format = "ptr")

\* The listing rows whose detail page was requested, in request order.
DetailTargets ==
    LET sent == SelectSeq(http_log, LAMBDA q : q.request = "detail")
    IN  [j \in 1..Len(sent) |-> sent[j].target]

\* C30: the detail fetches of a run go to the listing records whose
\* is_ptr is true and whose report_format is "ptr", once each and in
\* listing order, and to no other record; is_ptr is true exactly for the
\* records whose link text classifies as PTR.  A run that returns has
\* fetched every one of them; a run that an error ended had fetched the
\* first of them up to the one the error came with.
C30_DetailFetchesAreThePtrReports ==
    /\ Len(DetailTargets) <= Len(ElectronicPtrRows)
    /\ DetailTargets = SubSeq(ElectronicPtrRows, 1, Len(DetailTargets))
    /\ d_pc = "returned" => DetailTargets = ElectronicPtrRows
    /\ \A k \in 1..Len(d_reports) :
          /\ d_reports[k].is_ptr
          /\ d_reports[k].report_type = "PTR"
          /\ d_reports[k].report_format = "ptr"
          /\ d_reports[k].row = ElectronicPtrRows[k]

\* A listing of an electronic PTR, a paper PTR and another electronic
\* PTR: the run returned after fetching the first and the third.
C30_Witness ==
    /\ d_pc = "returned"
    /\ Len(d_rows) = 3
    /\ d_rows[2].format = "paper"
    /\ DetailTargets = <<1, 3>>

====
